---- MODULE Spec2Model ----
(***************************************************************************)
(* State-machine model of the SIGEM local-first store (utils/APIdb.js):    *)
(* the Dexie tables users, usersMeta, orders, ordersMeta, the operations   *)
(* of the store API that mutate them, and the expiration sweep that every  *)
(* API call runs through initAPIDB.                                        *)
(*                                                                         *)
(* Abstractions:                                                           *)
(*  - a table is a function from its primary key to the stored record;     *)
(*  - an instant is reduced to its Chile calendar day, a positive integer  *)
(*    (day 1 is 2024-01-01); `today` is startOfChileDay(new Date());       *)
(*  - a changeLog line is reduced to its origin: the line written when a   *)
(*    meta table is seeded, a line appended by a version bump of this      *)
(*    store, or a line received in a payload;                              *)
(*  - a JavaScript value that reaches an integer conversion is a number    *)
(*    Num(n), the decimal string Str(n) or Nil (undefined, null, a text    *)
(*    that is not numeric); a missing or non-finite integer is Absent.     *)
(***************************************************************************)
EXTENDS Integers, Sequences, FiniteSets, TLC

VARIABLES
    users,       \* table users:      code    -> user record
    usersMeta,   \* table usersMeta:  version -> changeLog
    orders,      \* table orders:     code    -> order record
    ordersMeta,  \* table ordersMeta: version -> changeLog
    today,       \* the current Chile day of the host clock
    last,        \* the most recent step: the API call and its outcome
    userCalls,   \* how many addUser / updateUser calls have returned in a
                 \* run of nothing but such calls; Absent after any other call
    peer,        \* the store of a second device (its four tables)
    phase,       \* the exchange of users snapshots between the two devices:
                 \* "offline", "toPeer", "toMain" (one direction done), "synced"
    calls        \* the API calls in flight at the same time on this store:
                 \* caller -> the call, the await it has reached, what it
                 \* has read so far

vars == <<users, usersMeta, orders, ordersMeta, today, last, userCalls,
          peer, phase, calls>>

(***************************************************************************)
(* Bounds of the model.                                                    *)
(***************************************************************************)
MaxVersions == 5
MaxBatch == 2
MaxTasks == 3

(***************************************************************************)
(* Values.                                                                 *)
(***************************************************************************)
Absent == -1

AUTO_EXPIRED_NOTE == "Anulada automaticamente por vencimiento"

EmptyTable == [k \in {} |-> <<>>]

\* no call is in flight: every call runs from its first line to its return
\* before the next one starts
NoCalls == <<>>

Put(t, k, v) == [x \in (DOMAIN t) \cup {k} |-> IF x = k THEN v ELSE t[x]]

Delete(t, k) == [x \in (DOMAIN t) \ {k} |-> t[x]]

SetMax(S) == CHOOSE x \in S : \A y \in S : y <= x

SetMin(S) == CHOOSE x \in S : \A y \in S : x <= y

\* db.usersMeta.orderBy("version").last()?.version || 0
LatestVersion(meta) == IF DOMAIN meta = {} THEN 0 ELSE SetMax(DOMAIN meta)

DB == [users |-> users, usersMeta |-> usersMeta,
       orders |-> orders, ordersMeta |-> ordersMeta]

EmptyStore == [users |-> EmptyTable, usersMeta |-> EmptyTable,
               orders |-> EmptyTable, ordersMeta |-> EmptyTable]

Num(n) == [t |-> "num", n |-> n]

Str(n) == [t |-> "str", n |-> n]

Nil == [t |-> "nil", n |-> 0]

\* const toInt = (v) => { const n = parseInt(String(v).trim(), 10);
\*                        return Number.isFinite(n) ? n : undefined; }
toInt(v) == IF v.t \in {"num", "str"} THEN v.n ELSE Absent

IsFinite(n) == n # Absent

(***************************************************************************)
(* Clock/TimeZone service (utils/timezone): days in the fixed time zone.   *)
(***************************************************************************)
\* Str(d) is the text of the date of day d.
parseChileDateString(raw) == IF raw.t = "str" THEN raw.n ELSE Absent

startOfChileDay(d) == d

addChileDays(d, n) == d + n

(***************************************************************************)
(* Meta records.                                                           *)
(***************************************************************************)
\* `${nowISO()} - ${reason}`
LogLine(reason) == "bump"

bumpVersionSkipping(meta, reason) ==
    LET latest == LatestVersion(meta)
        nextVer == IF latest # 0 THEN latest + 2 ELSE 1
        changeLog == IF latest # 0 THEN meta[latest] ELSE <<>>
    IN  Put(meta, nextVer, Append(changeLog, LogLine(reason)))

bumpVersionInPlace(meta, reason) ==
    LET latest == LatestVersion(meta)
        nextVer == IF latest # 0 THEN latest ELSE 1
        changeLog == IF latest # 0 THEN meta[latest] ELSE <<>>
    IN  Put(meta, nextVer, Append(changeLog, LogLine(reason)))

bumpUsersVersion(meta, reason) ==
    LET latest == LatestVersion(meta)
        nextVer == IF latest # 0 THEN latest + 1 ELSE 1
        changeLog == IF latest # 0 THEN meta[latest] ELSE <<>>
    IN  Put(meta, nextVer, Append(changeLog, LogLine(reason)))

bumpOrdersVersion(meta, reason) ==
    LET latest == LatestVersion(meta)
        nextVer == IF latest # 0 THEN latest + 1 ELSE 1
        changeLog == IF latest # 0 THEN meta[latest] ELSE <<>>
    IN  Put(meta, nextVer, Append(changeLog, LogLine(reason)))

(***************************************************************************)
(* Order status derived from the task list.                                *)
(***************************************************************************)
NoTasks == [has |-> FALSE, data |-> <<>>]

TaskList(statuses) ==
    [has |-> TRUE, data |-> [i \in DOMAIN statuses |-> [status |-> statuses[i]]]]

calculateOrderStatusAnyCompleted(tasks) ==
    IF ~tasks.has THEN 0
    ELSE IF \E i \in DOMAIN tasks.data : tasks.data[i].status = 2 THEN 2
    ELSE IF \E i \in DOMAIN tasks.data : tasks.data[i].status \in {1, 2} THEN 1
    ELSE 0

calculateOrderStatusNoProgress(tasks) ==
    IF ~tasks.has THEN 0
    ELSE IF \A i \in DOMAIN tasks.data : tasks.data[i].status = 2 THEN 2
    ELSE 0

calculateOrderStatus(tasks) ==
    IF ~tasks.has THEN 0
    ELSE IF \A i \in DOMAIN tasks.data : tasks.data[i].status = 2 THEN 2
    ELSE IF \E i \in DOMAIN tasks.data : tasks.data[i].status \in {1, 2} THEN 1
    ELSE 0

(***************************************************************************)
(* Expiration window.                                                      *)
(***************************************************************************)
computeExpirationInfoNoGrace(orderInfo) ==
    LET startDateRaw == parseChileDateString(orderInfo.F_inicial)
        frequencyDays == toInt(orderInfo.Frec_Dias)
    IN  IF ~IsFinite(startDateRaw) \/ ~IsFinite(frequencyDays)
        THEN [ok |-> FALSE, dueDate |-> Absent, expirationDate |-> Absent]
        ELSE LET startDate == startOfChileDay(startDateRaw)
             IN  [ok |-> TRUE,
                  dueDate |-> addChileDays(startDate, frequencyDays),
                  expirationDate |-> addChileDays(startDate, frequencyDays)]

computeExpirationInfo(orderInfo) ==
    LET startDateRaw == parseChileDateString(orderInfo.F_inicial)
        frequencyDays == toInt(orderInfo.Frec_Dias)
    IN  IF ~IsFinite(startDateRaw) \/ ~IsFinite(frequencyDays)
        THEN [ok |-> FALSE, dueDate |-> Absent, expirationDate |-> Absent]
        ELSE LET startDate == startOfChileDay(startDateRaw)
             IN  [ok |-> TRUE,
                  dueDate |-> addChileDays(startDate, frequencyDays),
                  expirationDate |-> addChileDays(startDate, frequencyDays + 4)]

\* The decision of markOrdersExpired for one stored order on day `now`.
IsExpiredOn(order, now) ==
    LET expirationInfo == computeExpirationInfo(order.info)
    IN  expirationInfo.ok /\ now > expirationInfo.expirationDate

sweepOrderDroppingNote(order, codesSet, now) ==
    LET status == order.info.status
        shouldEvaluate == codesSet = {} \/ order.code.n \in codesSet \/ status = 4
    IN  IF status = 2 \/ ~shouldEvaluate THEN order
        ELSE IF IsExpiredOn(order, now)
        THEN IF status # 4
             THEN [order EXCEPT !.info.status = 4,
                                !.info.obs_anulada =
                                    IF @ = <<>> THEN <<AUTO_EXPIRED_NOTE>> ELSE @]
             ELSE order
        ELSE IF status = 4
        THEN [order EXCEPT !.info.status = calculateOrderStatus(order.tasks),
                           !.info.obs_anulada = <<>>]
        ELSE order

sweepOrderTouchingCompleted(order, codesSet, now) ==
    LET status == order.info.status
        shouldEvaluate == codesSet = {} \/ order.code.n \in codesSet \/ status = 4
    IN  IF ~shouldEvaluate THEN order
        ELSE IF IsExpiredOn(order, now)
        THEN IF status # 4
             THEN [order EXCEPT !.info.status = 4,
                                !.info.obs_anulada =
                                    IF @ = <<>> THEN <<AUTO_EXPIRED_NOTE>> ELSE @]
             ELSE order
        ELSE IF status = 4
        THEN [order EXCEPT !.info.status = calculateOrderStatus(order.tasks),
                           !.info.obs_anulada =
                               IF @ = <<AUTO_EXPIRED_NOTE>> THEN <<>> ELSE @]
        ELSE order

sweepOrderFlapping(order, codesSet, now) ==
    LET status == order.info.status
        shouldEvaluate == codesSet = {} \/ order.code.n \in codesSet \/ status = 4
    IN  IF status = 2 \/ ~shouldEvaluate THEN order
        ELSE IF status # 4
        THEN IF IsExpiredOn(order, now)
             THEN [order EXCEPT !.info.status = 4,
                                !.info.obs_anulada =
                                    IF @ = <<>> THEN <<AUTO_EXPIRED_NOTE>> ELSE @]
             ELSE order
        ELSE [order EXCEPT !.info.status = calculateOrderStatus(order.tasks),
                           !.info.obs_anulada =
                               IF @ = <<AUTO_EXPIRED_NOTE>> THEN <<>> ELSE @]

\* One iteration of the loop of markOrdersExpired: the record the sweep
\* leaves for `order` (the order itself when it pushes no update).
sweepOrder(order, codesSet, now) ==
    LET status == order.info.status
        shouldEvaluate == codesSet = {} \/ order.code.n \in codesSet \/ status = 4
    IN  IF status = 2 \/ ~shouldEvaluate THEN order
        ELSE IF IsExpiredOn(order, now)
        THEN IF status # 4
             THEN [order EXCEPT !.info.status = 4,
                                !.info.obs_anulada =
                                    IF @ = <<>> THEN <<AUTO_EXPIRED_NOTE>> ELSE @]
             ELSE order
        ELSE IF status = 4
        THEN [order EXCEPT !.info.status = calculateOrderStatus(order.tasks),
                           !.info.obs_anulada =
                               IF @ = <<AUTO_EXPIRED_NOTE>> THEN <<>> ELSE @]
        ELSE order

\* markOrdersExpired after its initAPIDB: the store it leaves.
markOrdersExpired(s, codesSet, now) ==
    LET swept == [c \in DOMAIN s.orders |-> sweepOrder(s.orders[c], codesSet, now)]
        updates == {c \in DOMAIN s.orders : swept[c] # s.orders[c]}
    IN  IF updates = {} THEN s
        ELSE [s EXCEPT !.orders = swept,
                       !.ordersMeta = bumpOrdersVersion(@, "revalidate expired orders")]

\* The call of markOrdersExpired after its initAPIDB: it notifies when it
\* wrote an update.
markOrdersExpiredCall(s, codesSet, now) ==
    LET swept == markOrdersExpired(s, codesSet, now)
    IN  [db |-> swept, ok |-> TRUE, ret |-> "done",
         ev |-> IF swept # s THEN {"orders"} ELSE {}]

\* initAPIDB, first half: a meta table that holds no record gets version 1.
seedMeta(s) ==
    [s EXCEPT !.usersMeta = IF DOMAIN @ = {} THEN Put(@, 1, <<"init">>) ELSE @,
              !.ordersMeta = IF DOMAIN @ = {} THEN Put(@, 1, <<"init">>) ELSE @]

\* initAPIDB: seed the meta tables, then sweep every order.
initAPIDB(s, now) == markOrdersExpired(seedMeta(s), {}, now)

(***************************************************************************)
(* Outcome of one API call on store s: the store it leaves and whether it  *)
(* returned (ok) or threw.  `fault` is the storage failing at the call's   *)
(* meta write: "none", or "storage" (the put of the meta record throws).   *)
(* Inside a Dexie transaction the throw aborts it, so neither write stays. *)
(* `ev` is the set of families for which the operation itself (its         *)
(* initAPIDB apart) calls notifyUsersChanged / notifyOrdersChanged.        *)
(***************************************************************************)
Faults == {"none", "storage"}

Returned(s) == [db |-> s, ok |-> TRUE, ret |-> "done", ev |-> {}]

Threw(s) == [db |-> s, ok |-> FALSE, ret |-> "error", ev |-> {}]

Replied(s, ret) == [db |-> s, ok |-> TRUE, ret |-> ret, ev |-> {}]

\* try { notifyUsersChanged(...) } catch {}  /  notifyOrdersChanged
Notifying(r, family) == [r EXCEPT !.ev = @ \cup {family}]

(***************************************************************************)
(* Users.                                                                  *)
(***************************************************************************)
Null == Absent

RequiresSpeciality(role) == role \in {"supervisor", "mantenedor"}

addUserOverwriting(s, code, name, role, speciality, fault) ==
    LET numericCode == toInt(code)
        specialityValue == toInt(speciality)
        requiresSpeciality == RequiresSpeciality(role)
    IN  IF ~IsFinite(numericCode) \/ name = "" \/ role = ""
           \/ (requiresSpeciality /\ ~IsFinite(specialityValue))
        THEN Threw(s)
        ELSE IF fault = "storage"
        THEN Threw(s)
        ELSE Notifying(Returned([s EXCEPT
                !.users = Put(@, numericCode,
                    [code |-> numericCode, name |-> name, role |-> role,
                     speciality |-> IF requiresSpeciality
                                    THEN specialityValue ELSE Null]),
                !.usersMeta = bumpUsersVersion(@, "add user")]), "users")

addUser(s, code, name, role, speciality, fault) ==
    LET numericCode == toInt(code)
        specialityValue == toInt(speciality)
        requiresSpeciality == RequiresSpeciality(role)
    IN  IF ~IsFinite(numericCode) \/ name = "" \/ role = ""
           \/ (requiresSpeciality /\ ~IsFinite(specialityValue))
        THEN Threw(s)
        ELSE IF numericCode \in DOMAIN s.users \/ fault = "storage"
        THEN Threw(s)
        ELSE Notifying(Returned([s EXCEPT
                !.users = Put(@, numericCode,
                    [code |-> numericCode, name |-> name, role |-> role,
                     speciality |-> IF requiresSpeciality
                                    THEN specialityValue ELSE Null]),
                !.usersMeta = bumpUsersVersion(@, "add user")]), "users")

\* patch.has: the fields the patch object owns (hasOwnProperty).
updateUser(s, code, patch, fault) ==
    LET numericCode == toInt(code)
    IN  IF ~IsFinite(numericCode) \/ numericCode \notin DOMAIN s.users
        THEN Threw(s)
        ELSE
        LET existing == s.users[numericCode]
            nameValue == IF "name" \in patch.has THEN patch.name ELSE existing.name
            roleValue == IF "role" \in patch.has THEN patch.role ELSE existing.role
            requiresSpeciality == RequiresSpeciality(roleValue)
            parsedSpeciality == toInt(patch.speciality)
            currentSpeciality == existing.speciality
            specialityBad ==
                IF "speciality" \in patch.has
                THEN requiresSpeciality /\ ~IsFinite(parsedSpeciality)
                ELSE requiresSpeciality /\ ~IsFinite(currentSpeciality)
            nextSpeciality ==
                IF "speciality" \in patch.has THEN parsedSpeciality
                ELSE IF requiresSpeciality THEN currentSpeciality
                ELSE Null
            next == [existing EXCEPT !.name = nameValue, !.role = roleValue,
                                     !.speciality = nextSpeciality]
        IN  IF nameValue = "" \/ roleValue = "" \/ specialityBad
               \/ fault = "storage"
            THEN Threw(s)
            ELSE Notifying(Returned([s EXCEPT
                    !.users = Put(@, numericCode, next),
                    !.usersMeta = bumpUsersVersion(@, "update user")]), "users")

deleteUser(s, code, fault) ==
    LET c == toInt(code)
    IN  IF fault = "storage" THEN Threw(s)
        ELSE Notifying(Returned([s EXCEPT
                !.users = Delete(@, c),
                !.usersMeta = bumpUsersVersion(@, "delete user")]), "users")

\* import.meta.env.VITE_ADMIN_CODE / VITE_ADMIN_NAME
AdminCode == toInt(Str(100))
AdminName == "root"

seedRootAdminFromEnvAlways(s, fault) ==
    IF fault = "storage" THEN Threw(s)
    ELSE Notifying(Replied([s EXCEPT
                !.users = Put(@, AdminCode,
                    [code |-> AdminCode, name |-> AdminName, role |-> "admin",
                     speciality |-> Null]),
                !.usersMeta = bumpUsersVersion(@, "seed root admin from env")],
            "true"), "users")

seedRootAdminFromEnv(s, fault) ==
    IF AdminCode \in DOMAIN s.users THEN Replied(s, "false")
    ELSE IF fault = "storage" THEN Threw(s)
    ELSE Notifying(Replied([s EXCEPT
                !.users = Put(@, AdminCode,
                    [code |-> AdminCode, name |-> AdminName, role |-> "admin",
                     speciality |-> Null]),
                !.usersMeta = bumpUsersVersion(@, "seed root admin from env")],
            "true"), "users")

(***************************************************************************)
(* Orders.                                                                 *)
(***************************************************************************)
\* The first candidate of <<code, info["Numero orden"], ["Numero orden"],
\* Numero, id>> for which parseInt(String(v || "").trim(), 10) is finite:
\* a candidate that is missing, not numeric or 0 (falsy) is passed over.
Candidates(o) == <<o.code, o.info.Numero_orden, o.Numero_orden, o.Numero, o.id>>

\* Number.parseInt(String(v || "").trim(), 10) is finite
Parses(v) == v.t = "str" \/ (v.t = "num" /\ v.n # 0)

ResolveCodeLastCandidate(o) ==
    LET vals == Candidates(o)
        hits == {i \in DOMAIN vals : Parses(vals[i])}
    IN  IF hits = {} THEN Absent
        ELSE vals[CHOOSE i \in hits : \A j \in hits : i >= j].n

ResolveCode(o) ==
    LET vals == Candidates(o)
        hits == {i \in DOMAIN vals : Parses(vals[i])}
    IN  IF hits = {} THEN Absent
        ELSE vals[CHOOSE i \in hits : \A j \in hits : i <= j].n

\* applyOrdersSnapshot: the record stored for a payload that resolves a code.
normalizeSnapshotOrder(o) == [o EXCEPT !.code = Num(ResolveCode(o))]

\* bulkUpsertOrders: the record stored for a payload that resolves a code.
normalizeUpsert(o) ==
    IF o.tasks.has
    THEN [o EXCEPT !.code = Num(ResolveCode(o)),
                   !.info.status = calculateOrderStatus(o.tasks)]
    ELSE [o EXCEPT !.code = Num(ResolveCode(o))]

\* db.orders.bulkPut(rows): the rows are put in order, so that the last row
\* of a code is the one that stays.
RECURSIVE bulkPut(_, _)
bulkPut(t, rows) ==
    IF rows = <<>> THEN t
    ELSE bulkPut(Put(t, Head(rows).code.n, Head(rows)), Tail(rows))

bulkUpsertOrders(s, batch, fault) ==
    LET Resolves(o) == ResolveCode(o) # Absent
        valid == SelectSeq(batch, Resolves)
        canon == [i \in DOMAIN valid |-> normalizeUpsert(valid[i])]
        written == [s EXCEPT !.orders = bulkPut(@, canon)]
    IN  IF fault = "storage" THEN Threw(written)
        ELSE Notifying(Returned([written EXCEPT
                !.ordersMeta = bumpOrdersVersion(@, "bulk upsert orders")]),
                       "orders")

\* A JavaScript string argument.
Text(s) == [t |-> "text", s |-> s]

\* String.prototype.trim, on the texts the callers hand over
trim(s) ==
    IF s = " " THEN ""
    ELSE IF s = " motivo " THEN "motivo"
    ELSE s

\* typeof v === "string" ? v.trim() : ""
Sanitized(v) == IF v.t = "text" THEN trim(v.s) ELSE ""

cancelOrderUntrimmed(s, orderCode, reason, detail, fault) ==
    LET code == toInt(orderCode)
    IN  IF ~IsFinite(code) \/ code \notin DOMAIN s.orders
           \/ reason.t # "text" \/ detail.t # "text"
           \/ reason.s = "" \/ detail.s = "" \/ fault = "storage"
        THEN Threw(s)
        ELSE Notifying(Returned([s EXCEPT
                !.orders[code].info.status = 3,
                !.orders[code].info.obs_anulada = <<reason.s, detail.s>>,
                !.ordersMeta = bumpOrdersVersion(@, "cancel order")]), "orders")

cancelOrder(s, orderCode, reason, detail, fault) ==
    LET code == toInt(orderCode)
        sanitizedReason == Sanitized(reason)
        sanitizedDetail == Sanitized(detail)
    IN  IF ~IsFinite(code) \/ code \notin DOMAIN s.orders
           \/ sanitizedReason = "" \/ sanitizedDetail = ""
           \/ fault = "storage"
        THEN Threw(s)
        ELSE Notifying(Returned([s EXCEPT
                !.orders[code].info.status = 3,
                !.orders[code].info.obs_anulada =
                    <<sanitizedReason, sanitizedDetail>>,
                !.ordersMeta = bumpOrdersVersion(@, "cancel order")]), "orders")

\* `!taskList || !taskList[idx]`, idx counted from 0
TaskFound(order, idx) == order.tasks.has /\ idx + 1 \in DOMAIN order.tasks.data

startedTaskRestarted(prevTask) ==
    [prevTask EXCEPT !.status = 1]

startedTask(prevTask) ==
    [prevTask EXCEPT !.status = IF @ > 0 THEN @ ELSE 1]

startOrderTaskUnchecked(s, orderCode, taskIndex, fault) ==
    LET code == toInt(orderCode)
        idx == taskIndex
    IN  IF ~IsFinite(code) \/ idx < 0 \/ fault = "storage"
        THEN Threw(s)
        ELSE IF code \notin DOMAIN s.orders \/ ~TaskFound(s.orders[code], idx)
        THEN Notifying(Returned([s EXCEPT
                !.ordersMeta = bumpOrdersVersion(@, "start task")]), "orders")
        ELSE
        LET order == s.orders[code]
            updatedTasks == [order.tasks EXCEPT
                                !.data[idx + 1] = startedTask(@)]
        IN  Notifying(Returned([s EXCEPT
                !.orders[code].tasks = updatedTasks,
                !.orders[code].info.status = calculateOrderStatus(updatedTasks),
                !.ordersMeta = bumpOrdersVersion(@, "start task")]), "orders")

startOrderTask(s, orderCode, taskIndex, fault) ==
    LET code == toInt(orderCode)
        idx == taskIndex
    IN  IF ~IsFinite(code) \/ idx < 0 \/ code \notin DOMAIN s.orders
        THEN Threw(s)
        ELSE IF ~TaskFound(s.orders[code], idx) \/ fault = "storage"
        THEN Threw(s)
        ELSE
        LET order == s.orders[code]
            updatedTasks == [order.tasks EXCEPT
                                !.data[idx + 1] = startedTask(@)]
        IN  Notifying(Returned([s EXCEPT
                !.orders[code].tasks = updatedTasks,
                !.orders[code].info.status = calculateOrderStatus(updatedTasks),
                !.ordersMeta = bumpOrdersVersion(@, "start task")]), "orders")

completeOrderTask(s, orderCode, taskIndex, fault) ==
    LET code == toInt(orderCode)
        idx == taskIndex
    IN  IF ~IsFinite(code) \/ idx < 0 \/ code \notin DOMAIN s.orders
        THEN Threw(s)
        ELSE IF ~TaskFound(s.orders[code], idx) \/ fault = "storage"
        THEN Threw(s)
        ELSE
        LET order == s.orders[code]
            updatedTasks == [order.tasks EXCEPT !.data[idx + 1].status = 2]
        IN  Notifying(Returned([s EXCEPT
                !.orders[code].tasks = updatedTasks,
                !.orders[code].info.status = calculateOrderStatus(updatedTasks),
                !.ordersMeta = bumpOrdersVersion(@, "complete task")]), "orders")

\* A text that no date parser reads.
Junk == [t |-> "junk", n |-> 0]

\* parseFlexibleDate: the instant, in milliseconds, that a stored value
\* stands for (Num(n): the number n; Str(n): the ISO text of instant n), or
\* Absent for null.
parseFlexibleDate(value) ==
    IF value.t \in {"num", "str"} THEN value.n ELSE Absent

\* The value is truthy: a text that is not empty or a number other than 0.
Truthy(value) ==
    value.t \in {"str", "junk"} \/ (value.t = "num" /\ value.n # 0)

\* The first value of a list that parseFlexibleDate reads, Absent if none.
FirstParsed(candidates) ==
    LET hits == {i \in DOMAIN candidates :
                    parseFlexibleDate(candidates[i]) # Absent}
    IN  IF hits = {} THEN Absent
        ELSE parseFlexibleDate(candidates[SetMin(hits)])

duration_secondsSigned(prevTask, order, timestamp) ==
    LET started == FirstParsed(<<prevTask.init_task, order.info.fecha_inicio>>)
        start == IF started # Absent THEN started ELSE timestamp
        end == parseFlexibleDate(Str(timestamp))
    IN  (end - start) \div 1000

\* completeOrderTask, duration_seconds of the completed task, for the
\* timestamp nowISO() gave
duration_seconds(prevTask, order, timestamp) ==
    LET started == FirstParsed(<<prevTask.init_task, order.info.fecha_inicio>>)
        start == IF started # Absent THEN started ELSE timestamp
        end == parseFlexibleDate(Str(timestamp))
        diffMs == end - start
    IN  IF diffMs \div 1000 > 0 THEN diffMs \div 1000 ELSE 0

\* completeOrderTask, info.hs_reales, in hundredths of an hour (the code
\* keeps two decimals of the hours)
hs_reales(order, prevTask, timestamp) ==
    LET started == {i \in DOMAIN order.tasks.data :
                        Truthy(order.tasks.data[i].init_task)}
        firstStarted == IF started = {} THEN Nil
                        ELSE order.tasks.data[SetMin(started)].init_task
        startDate == FirstParsed(<<order.info.fecha_inicio,
                                   order.info.fecha_inicio,
                                   prevTask.init_task, firstStarted>>)
        endDate == FirstParsed(<<Str(timestamp), order.info.fecha_fin>>)
        diffMs == endDate - startDate
    IN  IF startDate = Absent \/ endDate = Absent THEN 0
        ELSE IF diffMs <= 0 THEN 0
        ELSE (diffMs + 18000) \div 36000

\* completeOrderTask with the time fields it writes: on the task end_task,
\* duration_seconds and an init_task when it has none, on the order
\* info.fecha_fin and info.hs_reales.
completeOrderTaskAt(s, orderCode, taskIndex, timestamp, fault) ==
    LET r == completeOrderTask(s, orderCode, taskIndex, fault)
        code == toInt(orderCode)
        idx == taskIndex
    IN  IF ~r.ok THEN r
        ELSE LET order == s.orders[code]
                 prevTask == order.tasks.data[idx + 1]
             IN  [r EXCEPT !.db.orders[code] =
                    [@ EXCEPT
                        !.tasks.data[idx + 1].end_task = Str(timestamp),
                        !.tasks.data[idx + 1].duration_seconds =
                            duration_seconds(prevTask, order, timestamp),
                        !.tasks.data[idx + 1].init_task =
                            IF Truthy(@) THEN @ ELSE Str(timestamp),
                        !.info.fecha_fin = Str(timestamp),
                        !.info.hs_reales =
                            hs_reales(order, prevTask, timestamp)]]

saveOrderChecklist(s, orderCode, checklistData, fault) ==
    LET code == toInt(orderCode)
    IN  IF ~IsFinite(code) \/ code \notin DOMAIN s.orders \/ fault = "storage"
        THEN Threw(s)
        ELSE Notifying(Returned([s EXCEPT
                !.orders[code].info.checkListDict = checklistData,
                !.ordersMeta = bumpOrdersVersion(@, "save checklist order")]),
                       "orders")

(***************************************************************************)
(* Snapshot sync.                                                          *)
(***************************************************************************)
\* rows.map(...).filter(Boolean) and bulkPut of user rows keyed by toInt(code)
RECURSIVE bulkPutUsers(_, _)
bulkPutUsers(t, rows) ==
    IF rows = <<>> THEN t
    ELSE bulkPutUsers(
            Put(t, toInt(Head(rows).code),
                [Head(rows) EXCEPT !.code = toInt(Head(rows).code)]),
            Tail(rows))

applyUsersSnapshotNoStaleCheck(s, meta, usersPayload, fault) ==
    IF fault = "storage" THEN Threw(s)
    ELSE Notifying(Replied([s EXCEPT
            !.users = bulkPutUsers(EmptyTable, usersPayload),
            !.usersMeta = Put(@, meta.version, meta.changeLog)],
         "applied"), "users")

applyUsersSnapshotMerging(s, meta, usersPayload, fault) ==
    IF meta.version <= LatestVersion(s.usersMeta)
    THEN Replied(s, "stale-version")
    ELSE IF fault = "storage" THEN Threw(s)
    ELSE Notifying(Replied([s EXCEPT
            !.users = bulkPutUsers(@, usersPayload),
            !.usersMeta = Put(@, meta.version, meta.changeLog)],
         "applied"), "users")

\* meta.version is the incoming meta?.version || 0
applyUsersSnapshot(s, meta, usersPayload, fault) ==
    LET localVer == LatestVersion(s.usersMeta)
        incomingVer == meta.version
    IN  IF incomingVer <= localVer THEN Replied(s, "stale-version")
        ELSE IF fault = "storage" THEN Threw(s)
        ELSE Notifying(Replied([s EXCEPT
                !.users = bulkPutUsers(EmptyTable, usersPayload),
                !.usersMeta = Put(@, incomingVer, meta.changeLog)],
             "applied"), "users")

\* Number(v) === target for a stored scope field
NumberOf(v) == IF v.t \in {"num", "str"} THEN v.n ELSE Absent

NoContext == [userCode |-> Nil, speciality |-> Nil]

ScopedRemovalEverywhere(t, keepCodes, context) ==
    IF context.userCode # Nil \/ context.speciality # Nil
    THEN {c \in DOMAIN t : c \notin keepCodes}
    ELSE {}

\* scopedRemoval: the codes that applyOrdersSnapshot deletes
ScopedRemoval(t, keepCodes, context) ==
    IF context.userCode # Nil
    THEN LET targetUser == toInt(context.userCode)
         IN  IF ~IsFinite(targetUser) THEN {}
             ELSE {c \in DOMAIN t :
                      /\ NumberOf(t[c].info.asignado_a_code) = targetUser
                      /\ c \notin keepCodes}
    ELSE IF context.speciality # Nil
    THEN LET targetSpeciality == toInt(context.speciality)
         IN  IF ~IsFinite(targetSpeciality) THEN {}
             ELSE {c \in DOMAIN t :
                      /\ NumberOf(t[c].info.Especialidad_id) = targetSpeciality
                      /\ c \notin keepCodes}
    ELSE {}

applyOrdersSnapshotAcceptingEqual(s, meta, ordersPayload, context, fault) ==
    LET Resolves(o) == ResolveCode(o) # Absent
        valid == SelectSeq(ordersPayload, Resolves)
        normalized == [i \in DOMAIN valid |-> normalizeSnapshotOrder(valid[i])]
        keepCodes == {normalized[i].code.n : i \in DOMAIN normalized}
        toRemove == ScopedRemoval(s.orders, keepCodes, context)
        kept == [c \in (DOMAIN s.orders) \ toRemove |-> s.orders[c]]
    IN  IF meta.version < LatestVersion(s.ordersMeta)
        THEN Replied(s, "stale-version")
        ELSE IF fault = "storage" THEN Threw(s)
        ELSE Notifying(Replied([s EXCEPT
                !.orders = bulkPut(kept, normalized),
                !.ordersMeta = Put(@, meta.version, meta.changeLog)],
             "applied"), "orders")

applyOrdersSnapshot(s, meta, ordersPayload, context, fault) ==
    LET localVer == LatestVersion(s.ordersMeta)
        incomingVer == meta.version
        Resolves(o) == ResolveCode(o) # Absent
        valid == SelectSeq(ordersPayload, Resolves)
        normalized == [i \in DOMAIN valid |-> normalizeSnapshotOrder(valid[i])]
        keepCodes == {normalized[i].code.n : i \in DOMAIN normalized}
        toRemove == ScopedRemoval(s.orders, keepCodes, context)
        kept == [c \in (DOMAIN s.orders) \ toRemove |-> s.orders[c]]
    IN  IF incomingVer <= localVer THEN Replied(s, "stale-version")
        ELSE IF fault = "storage" THEN Threw(s)
        ELSE Notifying(Replied([s EXCEPT
                !.orders = bulkPut(kept, normalized),
                !.ordersMeta = Put(@, incomingVer, meta.changeLog)],
             "applied"), "orders")

(***************************************************************************)
(* Backup.                                                                 *)
(***************************************************************************)
BACKUP_SIGNATURE == "SIGEMBackup"
BACKUP_VERSION == 1

\* normalizeBackupScope
normalizeBackupScopeAll(scope) == "all"

normalizeBackupScope(scope) ==
    IF scope \in {"all", "users", "orders"} THEN scope ELSE "all"

\* A list of the payload's data: has = Array.isArray(list)
NoList == [has |-> FALSE, rows |-> <<>>]

List(rows) == [has |-> TRUE, rows |-> rows]

\* normalizeMetaEntries followed by bulkPut into the cleared meta table
RECURSIVE bulkPutMeta(_, _)
bulkPutMeta(t, entries) ==
    IF entries = <<>> THEN t
    ELSE bulkPutMeta(
            IF IsFinite(toInt(Head(entries).version))
            THEN Put(t, toInt(Head(entries).version), Head(entries).changeLog)
            ELSE t,
            Tail(entries))

\* rows with a finite toInt(code), stored under it
RECURSIVE bulkPutByCode(_, _)
bulkPutByCode(t, rows) ==
    IF rows = <<>> THEN t
    ELSE bulkPutByCode(
            IF IsFinite(toInt(Head(rows).code))
            THEN Put(t, toInt(Head(rows).code),
                     [Head(rows) EXCEPT !.code = Num(toInt(Head(rows).code))])
            ELSE t,
            Tail(rows))

RECURSIVE bulkPutUsersByCode(_, _)
bulkPutUsersByCode(t, rows) ==
    IF rows = <<>> THEN t
    ELSE bulkPutUsersByCode(
            IF IsFinite(toInt(Head(rows).code))
            THEN Put(t, toInt(Head(rows).code),
                     [Head(rows) EXCEPT !.code = toInt(Head(rows).code)])
            ELSE t,
            Tail(rows))

restoredMetaSeeded(entries, seedLine) == Put(EmptyTable, 1, <<seedLine>>)

restoredMeta(entries, seedLine) ==
    LET t == bulkPutMeta(EmptyTable, entries.rows)
    IN  IF DOMAIN t # {} THEN t ELSE Put(EmptyTable, 1, <<seedLine>>)

\* restoreUsers / restoreOrders of importDatabaseBackup
RestoresUsers(backup) ==
    /\ normalizeBackupScope(backup.scope) # "orders"
    /\ backup.data.users.has \/ backup.data.usersMeta.has

RestoresOrders(backup) ==
    /\ normalizeBackupScope(backup.scope) # "users"
    /\ backup.data.orders.has \/ backup.data.ordersMeta.has

restoreBackupMerging(s, backup) ==
    LET data == backup.data
    IN  [s EXCEPT
            !.users = IF RestoresUsers(backup)
                      THEN bulkPutUsersByCode(@, data.users.rows) ELSE @,
            !.usersMeta = IF RestoresUsers(backup)
                          THEN restoredMeta(data.usersMeta, "restored") ELSE @,
            !.orders = IF RestoresOrders(backup)
                       THEN bulkPutByCode(@, data.orders.rows) ELSE @,
            !.ordersMeta = IF RestoresOrders(backup)
                           THEN restoredMeta(data.ordersMeta, "restored") ELSE @]

\* The transaction of importDatabaseBackup: the targeted tables and their
\* meta history are cleared and written from the payload.
restoreBackup(s, backup) ==
    LET data == backup.data
    IN  [s EXCEPT
            !.users = IF RestoresUsers(backup)
                      THEN bulkPutUsersByCode(EmptyTable, data.users.rows) ELSE @,
            !.usersMeta = IF RestoresUsers(backup)
                          THEN restoredMeta(data.usersMeta, "restored") ELSE @,
            !.orders = IF RestoresOrders(backup)
                       THEN bulkPutByCode(EmptyTable, data.orders.rows) ELSE @,
            !.ordersMeta = IF RestoresOrders(backup)
                           THEN restoredMeta(data.ordersMeta, "restored") ELSE @]

\* importDatabaseBackup throws one of its own errors about the file.
Rejected(s) == [Threw(s) EXCEPT !.ret = "format"]

\* backup.parses: parseBackupPayload returns an object (a text that is not
\* JSON makes it throw).
importDatabaseBackup(s, backup, fault, now) ==
    IF ~backup.parses \/ backup.type # BACKUP_SIGNATURE
       \/ backup.version # BACKUP_VERSION
       \/ (~RestoresUsers(backup) /\ ~RestoresOrders(backup))
    THEN Rejected(s)
    ELSE IF fault = "storage" THEN Threw(s)
    ELSE LET restored == restoreBackup(s, backup)
             done == Returned(IF RestoresOrders(backup)
                              THEN markOrdersExpired(restored, {}, now)
                              ELSE restored)
         IN  [done EXCEPT !.ev =
                 (IF RestoresUsers(backup) THEN {"users"} ELSE {})
                 \cup (IF RestoresOrders(backup) THEN {"orders"} ELSE {})]

\* orderBy(primary key).toArray()
RECURSIVE toArray(_)
toArray(t) ==
    IF DOMAIN t = {} THEN <<>>
    ELSE <<t[SetMin(DOMAIN t)]>> \o toArray(Delete(t, SetMin(DOMAIN t)))

\* The rows of a table as the values a payload carries: a stored integer is
\* a JavaScript number.
userRows(t) == toArray([c \in DOMAIN t |-> [t[c] EXCEPT !.code = Num(c)]])

metaRows(t) ==
    toArray([v \in DOMAIN t |-> [version |-> Num(v), changeLog |-> t[v]]])

\* exportDatabaseBackup after its initAPIDB: the envelope it returns.
exportDatabaseBackup(s, scope) ==
    LET normalizedScope == normalizeBackupScope(scope)
        includeUsers == normalizedScope \in {"all", "users"}
        includeOrders == normalizedScope \in {"all", "orders"}
    IN  [type |-> BACKUP_SIGNATURE, version |-> BACKUP_VERSION,
         scope |-> normalizedScope, parses |-> TRUE,
         data |-> [users |-> IF includeUsers
                             THEN List(userRows(s.users)) ELSE NoList,
                   usersMeta |-> IF includeUsers
                                 THEN List(metaRows(s.usersMeta)) ELSE NoList,
                   orders |-> IF includeOrders
                              THEN List(toArray(s.orders)) ELSE NoList,
                   ordersMeta |-> IF includeOrders
                                  THEN List(metaRows(s.ordersMeta)) ELSE NoList]]

(***************************************************************************)
(* Inputs of the API calls.                                                *)
(***************************************************************************)
CodeInputs == {Num(100), Str(200), Nil}

UpdateUserInputs ==
    {[code |-> Num(100), patch |-> p] : p \in
        {[has |-> {"name"}, name |-> "", role |-> "", speciality |-> Nil],
         [has |-> {"role"}, name |-> "", role |-> "mantenedor", speciality |-> Nil],
         [has |-> {"role", "speciality"}, name |-> "", role |-> "mantenedor",
          speciality |-> Str(1)]}}
    \cup
    {[code |-> Str(200), patch |-> p] : p \in
        {[has |-> {"role"}, name |-> "", role |-> "admin", speciality |-> Nil],
         [has |-> {"name"}, name |-> "Bea", role |-> "", speciality |-> Nil]}}
    \cup
    {[code |-> Nil,
      patch |-> [has |-> {}, name |-> "", role |-> "", speciality |-> Nil]]}

AddUserInputs ==
    {[code |-> Num(100), name |-> "Ana", role |-> "admin", speciality |-> Nil],
     [code |-> Str(200), name |-> "Ana", role |-> "mantenedor", speciality |-> Num(1)],
     [code |-> Nil, name |-> "Ana", role |-> "admin", speciality |-> Nil],
     [code |-> Num(100), name |-> "", role |-> "admin", speciality |-> Nil],
     [code |-> Num(100), name |-> "Ana", role |-> "", speciality |-> Nil],
     [code |-> Str(200), name |-> "Ana", role |-> "supervisor", speciality |-> Nil]}

Order(code, id, status, obs, start, freq, tasks) ==
    [code |-> code, id |-> id, Numero_orden |-> Nil, Numero |-> Nil,
     info |-> [status |-> status, obs_anulada |-> obs, F_inicial |-> start,
               Frec_Dias |-> freq, Numero_orden |-> Nil,
               asignado_a_code |-> Num(42), Especialidad_id |-> Num(1),
               checkListDict |-> Absent],
     tasks |-> tasks]

\* Payloads of orders as the callers hand them over: order 1 starts on day 1
\* (2024-01-01) with a frequency of 7 days, order 2 on day 2 with one of 6
\* days, so that both are due on day 8 and expire after day 12.
OrderA == Order(Num(1), Nil, Absent, <<>>, Str(1), Num(7), TaskList(<<0, 0>>))

\* order 2 names its code in Numero and carries an id of another value
OrderB ==
    [Order(Nil, Str(1), 0, <<>>, Str(2), Str(6), TaskList(<<0>>))
        EXCEPT !.Numero = Num(2), !.info.asignado_a_code = Str(42)]

OrderC ==
    [Order(Num(2), Nil, 4, <<AUTO_EXPIRED_NOTE>>, Nil, Num(6), TaskList(<<1>>))
        EXCEPT !.info.asignado_a_code = Num(7), !.info.Especialidad_id = Num(2)]

\* a payload whose stored status disagrees with its task list
OrderD == Order(Num(1), Nil, 0, <<>>, Str(1), Num(7), TaskList(<<2, 2>>))

\* a payload of an order marked as expired that carries a cancellation note
\* of its own
OrderE ==
    Order(Num(1), Nil, 4, <<"motivo", "detalle">>, Str(1), Num(7),
          TaskList(<<1, 0>>))

\* a payload that resolves no code
OrderZ == Order(Num(0), Nil, 0, <<>>, Str(1), Num(7), NoTasks)

RawOrders == {OrderA, OrderB, OrderC, OrderZ}

\* The batches offered to bulkUpsertOrders: at most MaxBatch payloads each.
Batches ==
    {b \in {<<>>, <<OrderA>>, <<OrderB>>, <<OrderC, OrderB>>, <<OrderB, OrderC>>,
            <<OrderZ, OrderA>>, <<OrderD, OrderZ, OrderC>>} : Len(b) <= MaxBatch}

OrderCodeInputs == {Num(1), Str(2), Nil}

TaskIndexInputs == {0, 1}

CancelInputs ==
    {[orderCode |-> Num(1), reason |-> Text("motivo"), detail |-> Text("detalle")],
     [orderCode |-> Str(2), reason |-> Text(" motivo "), detail |-> Text("detalle")],
     [orderCode |-> Num(1), reason |-> Text(""), detail |-> Text("detalle")],
     [orderCode |-> Num(1), reason |-> Text(" "), detail |-> Text("detalle")],
     [orderCode |-> Num(1), reason |-> Nil, detail |-> Text("detalle")],
     [orderCode |-> Str(2), reason |-> Text("motivo"), detail |-> Text("")],
     [orderCode |-> Str(2), reason |-> Text("motivo"), detail |-> Num(5)],
     [orderCode |-> Nil, reason |-> Text("motivo"), detail |-> Text("detalle")]}

ChecklistInputs == {1}

ClockDays == {12, 13}

\* Incoming snapshots: the meta of the sending store and its rows.
IncomingVersions == {2, MaxVersions - 2}

IncomingMeta == {[version |-> v, changeLog |-> <<"remote">>] : v \in IncomingVersions}

UserRow(code, role, speciality) ==
    [code |-> code, name |-> "Ana", role |-> role, speciality |-> speciality]

UsersPayloads == {<<>>, <<UserRow(Str(200), "supervisor", 1)>>}

OrdersSnapshotInputs ==
    {[orders |-> <<>>, context |-> NoContext],
     [orders |-> <<OrderD>>, context |-> NoContext],
     [orders |-> <<OrderB>>, context |-> [userCode |-> Num(42), speciality |-> Nil]],
     [orders |-> <<>>, context |-> [userCode |-> Nil, speciality |-> Str(1)]]}

\* Backup files offered to importDatabaseBackup.
Backup(type, version, scope, usersList, usersMetaList, ordersList, ordersMetaList) ==
    [type |-> type, version |-> version, scope |-> scope, parses |-> TRUE,
     data |-> [users |-> usersList, usersMeta |-> usersMetaList,
               orders |-> ordersList, ordersMeta |-> ordersMetaList]]

\* a text that is not JSON
NotJson ==
    [Backup("", 0, "", NoList, NoList, NoList, NoList) EXCEPT !.parses = FALSE]

MetaEntry(version, changeLog) == [version |-> version, changeLog |-> changeLog]

BackupInputs ==
    {Backup(BACKUP_SIGNATURE, BACKUP_VERSION, "all",
            List(<<UserRow(Num(100), "admin", Null)>>), NoList,
            List(<<OrderD>>), List(<<MetaEntry(Num(1), <<"init">>)>>)),
     Backup(BACKUP_SIGNATURE, BACKUP_VERSION, "orders",
            NoList, NoList, List(<<OrderC, OrderE>>), NoList),
     Backup(BACKUP_SIGNATURE, BACKUP_VERSION, "users",
            NoList, NoList, List(<<OrderA>>), NoList),
     Backup("other", BACKUP_VERSION, "all",
            List(<<>>), NoList, List(<<>>), NoList),
     Backup(BACKUP_SIGNATURE, 2, "all",
            List(<<>>), NoList, List(<<>>), NoList),
     NotJson}

(***************************************************************************)
(* The state machine: one action per API call, each running initAPIDB      *)
(* first, and the host clock passing midnight.                             *)
(***************************************************************************)
Init ==
    /\ users = EmptyTable
    /\ usersMeta = EmptyTable
    /\ orders = EmptyTable
    /\ ordersMeta = EmptyTable
    /\ today = 12
    /\ last = [op |-> "open", ok |-> TRUE, ret |-> "done", ev |-> {}]
    /\ userCalls = 0
    /\ peer = EmptyStore
    /\ phase = "offline"
    /\ calls = NoCalls

\* The calls explored: those made while the two families together hold
\* fewer than MaxVersions versions.
Bounded == LatestVersion(usersMeta) + LatestVersion(ordersMeta) < MaxVersions

\* The store as the call's initAPIDB leaves it.
Opened == initAPIDB(DB, today)

\* The call leaves its result in the tables of this device.
Commit(op, r) ==
    /\ users' = r.db.users
    /\ usersMeta' = r.db.usersMeta
    /\ orders' = r.db.orders
    /\ ordersMeta' = r.db.ordersMeta
    /\ last' = [op |-> op, ok |-> r.ok, ret |-> r.ret, ev |-> r.ev]
    /\ userCalls' = IF op \notin {"addUser", "updateUser"} \/ userCalls = Absent
                    THEN Absent
                    ELSE IF r.ok THEN userCalls + 1 ELSE userCalls

Call(op, r) ==
    /\ Commit(op, r)
    /\ UNCHANGED <<today, peer, phase, calls>>

Tick ==
    /\ \E d \in ClockDays : d > today /\ today' = d
    /\ last' = [op |-> "tick", ok |-> TRUE, ret |-> "done", ev |-> {}]
    /\ UNCHANGED <<users, usersMeta, orders, ordersMeta, userCalls, peer, phase,
                   calls>>

AddUser ==
    /\ Bounded
    /\ \E u \in AddUserInputs, fault \in Faults :
          Call("addUser",
               addUser(Opened, u.code, u.name, u.role, u.speciality, fault))

UpdateUser ==
    /\ Bounded
    /\ \E u \in UpdateUserInputs, fault \in Faults :
          Call("updateUser", updateUser(Opened, u.code, u.patch, fault))

DeleteUser ==
    /\ Bounded
    /\ \E code \in CodeInputs \ {Nil}, fault \in Faults :
          Call("deleteUser", deleteUser(Opened, code, fault))

SeedRootAdminFromEnv ==
    /\ Bounded
    /\ \E fault \in Faults :
          Call("seedRootAdminFromEnv", seedRootAdminFromEnv(Opened, fault))

BulkUpsertOrders ==
    /\ Bounded
    /\ \E batch \in Batches, fault \in Faults :
          Call("bulkUpsertOrders", bulkUpsertOrders(Opened, batch, fault))

StartOrderTask ==
    /\ Bounded
    /\ \E orderCode \in OrderCodeInputs, taskIndex \in TaskIndexInputs,
          fault \in Faults :
          Call("startOrderTask", startOrderTask(Opened, orderCode, taskIndex, fault))

CompleteOrderTask ==
    /\ Bounded
    /\ \E orderCode \in OrderCodeInputs, taskIndex \in TaskIndexInputs,
          fault \in Faults :
          Call("completeOrderTask",
               completeOrderTask(Opened, orderCode, taskIndex, fault))

CancelOrder ==
    /\ Bounded
    /\ \E c \in CancelInputs, fault \in Faults :
          Call("cancelOrder",
               cancelOrder(Opened, c.orderCode, c.reason, c.detail, fault))

SaveOrderChecklist ==
    /\ Bounded
    /\ \E orderCode \in OrderCodeInputs, checklistData \in ChecklistInputs,
          fault \in Faults :
          Call("saveOrderChecklist",
               saveOrderChecklist(Opened, orderCode, checklistData, fault))

MarkOrdersExpired ==
    /\ Bounded
    /\ \E codesSet \in SUBSET {1, 2} :
          Call("markOrdersExpired",
               markOrdersExpiredCall(Opened, codesSet, today))

ApplyUsersSnapshot ==
    /\ Bounded
    /\ \E meta \in IncomingMeta, usersPayload \in UsersPayloads, fault \in Faults :
          Call("applyUsersSnapshot",
               applyUsersSnapshot(Opened, meta, usersPayload, fault))

ApplyOrdersSnapshot ==
    /\ Bounded
    /\ \E meta \in IncomingMeta, p \in OrdersSnapshotInputs, fault \in Faults :
          Call("applyOrdersSnapshot",
               applyOrdersSnapshot(Opened, meta, p.orders, p.context, fault))

\* The files offered: the samples and the envelope that exportDatabaseBackup
\* hands out for the store as it is.
BackupsOffered == BackupInputs \cup {exportDatabaseBackup(Opened, "all")}

ImportDatabaseBackup ==
    /\ Bounded
    /\ \E backup \in BackupsOffered, fault \in Faults :
          Call("importDatabaseBackup",
               importDatabaseBackup(Opened, backup, fault, today))

Next ==
    \/ Tick
    \/ AddUser
    \/ UpdateUser
    \/ DeleteUser
    \/ SeedRootAdminFromEnv
    \/ BulkUpsertOrders
    \/ StartOrderTask
    \/ CompleteOrderTask
    \/ CancelOrder
    \/ SaveOrderChecklist
    \/ MarkOrdersExpired
    \/ ApplyUsersSnapshot
    \/ ApplyOrdersSnapshot
    \/ ImportDatabaseBackup

Spec == Init /\ [][Next]_vars

(***************************************************************************)
(* The times that completeOrderTask writes: one stored order of two tasks  *)
(* whose init_task and info.fecha_inicio are present, missing, unreadable, *)
(* before, at or after the completion, and completions at two instants.    *)
(* Instants are milliseconds; 3600000 is one hour.                         *)
(***************************************************************************)
StartInputs ==
    {Nil, Junk, Str(0), Num(3600000), Str(3601500), Num(7200000)}

Timestamps == {3600000, 3601500}

TimedTask(initTask) ==
    [status |-> 0, init_task |-> initTask, end_task |-> Nil,
     duration_seconds |-> Absent]

TimedOrder(initTask, otherInitTask, fechaInicio) ==
    [code |-> Num(1), id |-> Nil, Numero_orden |-> Nil, Numero |-> Nil,
     info |-> [status |-> 0, obs_anulada |-> <<>>, F_inicial |-> Str(1),
               Frec_Dias |-> Num(7), Numero_orden |-> Nil,
               asignado_a_code |-> Num(42), Especialidad_id |-> Num(1),
               checkListDict |-> Absent, fecha_inicio |-> fechaInicio,
               fecha_fin |-> Nil, hs_reales |-> Absent],
     tasks |-> [has |-> TRUE,
                data |-> <<TimedTask(initTask), TimedTask(otherInitTask)>>]]

InitDurations ==
    /\ users = EmptyTable
    /\ usersMeta = Put(EmptyTable, 1, <<"init">>)
    /\ \E initTask \in StartInputs, otherInitTask \in {Nil, Str(0)},
          fechaInicio \in StartInputs :
          orders = Put(EmptyTable, 1,
                       TimedOrder(initTask, otherInitTask, fechaInicio))
    /\ ordersMeta = Put(EmptyTable, 1, <<"init">>)
    /\ today = 12
    /\ last = [op |-> "open", ok |-> TRUE, ret |-> "done", ev |-> {}]
    /\ userCalls = 0
    /\ peer = EmptyStore
    /\ phase = "offline"
    /\ calls = NoCalls

CompleteOrderTaskAt ==
    /\ Bounded
    /\ \E orderCode \in OrderCodeInputs, taskIndex \in TaskIndexInputs,
          timestamp \in Timestamps, fault \in Faults :
          Call("completeOrderTask",
               completeOrderTaskAt(Opened, orderCode, taskIndex, timestamp,
                                   fault))

NextDurations == CompleteOrderTaskAt

SpecDurations == InitDurations /\ [][NextDurations]_vars

(***************************************************************************)
(* Two devices: both start from the same empty store, each mutates its     *)
(* users while offline, then each applies the other's getUsersSnapshot,    *)
(* in either order, and makes no further mutation.                         *)
(***************************************************************************)
\* getUsersSnapshot after its initAPIDB: {meta, users}
getUsersSnapshot(s) ==
    [meta |-> [version |-> LatestVersion(s.usersMeta),
               changeLog |-> s.usersMeta[LatestVersion(s.usersMeta)]],
     users |-> userRows(s.users)]

PeerBounded ==
    LatestVersion(peer.usersMeta) + LatestVersion(peer.ordersMeta) < MaxVersions

PeerOpened == initAPIDB(peer, today)

LocalAddUser == phase = "offline" /\ AddUser

LocalUpdateUser == phase = "offline" /\ UpdateUser

LocalDeleteUser == phase = "offline" /\ DeleteUser

PeerAddUser ==
    /\ phase = "offline" /\ PeerBounded
    /\ \E u \in AddUserInputs, fault \in Faults :
          peer' = addUser(PeerOpened, u.code, u.name, u.role, u.speciality,
                          fault).db
    /\ UNCHANGED <<users, usersMeta, orders, ordersMeta, today, last,
                   userCalls, phase, calls>>

PeerUpdateUser ==
    /\ phase = "offline" /\ PeerBounded
    /\ \E u \in UpdateUserInputs, fault \in Faults :
          peer' = updateUser(PeerOpened, u.code, u.patch, fault).db
    /\ UNCHANGED <<users, usersMeta, orders, ordersMeta, today, last,
                   userCalls, phase, calls>>

\* The second device applies the users snapshot that this device hands out.
PeerApplies ==
    /\ phase \in {"offline", "toMain"}
    /\ LET snapshot == getUsersSnapshot(Opened)
       IN  peer' = applyUsersSnapshot(PeerOpened, snapshot.meta,
                                      snapshot.users, "none").db
    /\ Commit("getUsersSnapshot", Returned(Opened))
    /\ phase' = IF phase = "offline" THEN "toPeer" ELSE "synced"
    /\ UNCHANGED <<today, calls>>

\* This device applies the users snapshot that the second device hands out.
MainApplies ==
    /\ phase \in {"offline", "toPeer"}
    /\ LET snapshot == getUsersSnapshot(PeerOpened)
       IN  Commit("applyUsersSnapshot",
                  applyUsersSnapshot(Opened, snapshot.meta, snapshot.users,
                                     "none"))
    /\ peer' = PeerOpened
    /\ phase' = IF phase = "offline" THEN "toMain" ELSE "synced"
    /\ UNCHANGED <<today, calls>>

NextSync ==
    \/ LocalAddUser
    \/ LocalUpdateUser
    \/ LocalDeleteUser
    \/ PeerAddUser
    \/ PeerUpdateUser
    \/ PeerApplies
    \/ MainApplies

SpecSync == Init /\ [][NextSync]_vars

(***************************************************************************)
(* Properties.  A step of an API call is read against Opened, the store    *)
(* that the call's own initAPIDB leaves before the operation proper runs.  *)
(***************************************************************************)
UserMutators == {"addUser", "updateUser", "deleteUser", "seedRootAdminFromEnv"}

OrderMutators == {"bulkUpsertOrders", "startOrderTask", "completeOrderTask",
                  "cancelOrder", "saveOrderChecklist"}

\* The step is a call that returned after doing its mutation
\* (seedRootAdminFromEnv answers false when it inserts nothing).
Mutated(ops) == last'.op \in ops /\ last'.ok /\ last'.ret # "false"

\* The store between the two halves of the call's initAPIDB.
Seeded == seedMeta(DB)

\* C18: once the two devices have exchanged their users snapshots in both
\* directions, their users tables are identical and their latest usersMeta
\* versions are the same.
C18_DevicesConverge ==
    phase = "synced" =>
        /\ users = peer.users
        /\ LatestVersion(usersMeta) = LatestVersion(peer.usersMeta)

\* C1: every successful local mutation raises the latest version of the
\* owning meta family by exactly 1 and leaves the other family's version
\* alone: a returned user mutator against the store its initAPIDB left, a
\* returned order mutator likewise, and the sweep of initAPIDB, when it
\* changes at least one order, against the store it started from.
C1_MutationBumpsOwnFamilyByOne ==
    [][/\ Mutated(UserMutators) =>
            /\ LatestVersion(usersMeta') = LatestVersion(Opened.usersMeta) + 1
            /\ LatestVersion(ordersMeta') = LatestVersion(Opened.ordersMeta)
       /\ Mutated(OrderMutators) =>
            /\ LatestVersion(ordersMeta') = LatestVersion(Opened.ordersMeta) + 1
            /\ LatestVersion(usersMeta') = LatestVersion(Opened.usersMeta)
       /\ (last'.op # "tick" /\ Opened.orders # Seeded.orders) =>
            /\ LatestVersion(Opened.ordersMeta)
                   = LatestVersion(Seeded.ordersMeta) + 1
            /\ LatestVersion(Opened.usersMeta) = LatestVersion(Seeded.usersMeta)
      ]_vars

\* addUser returned on day 13 over a store whose order 1 the sweep expired:
\* one bump of each family since the order was upserted.
C1_Witness ==
    /\ last.op = "addUser" /\ last.ok
    /\ today = 13
    /\ 1 \in DOMAIN orders /\ orders[1].info.status = 4
    /\ LatestVersion(usersMeta) = 2
    /\ LatestVersion(ordersMeta) = 3

\* C2: no returned operation that changes a family's table leaves the latest
\* version of that family lower than or equal to what it was before.
C2_VersionStrictlyIncreasing ==
    [][last'.ok =>
         /\ users' # users => LatestVersion(usersMeta') > LatestVersion(usersMeta)
         /\ orders' # orders =>
                LatestVersion(ordersMeta') > LatestVersion(ordersMeta)
      ]_vars

\* C3: in a run of nothing but addUser and updateUser calls on a store that
\* initAPIDB has seeded, the latest usersMeta version is one more than the
\* number of calls that returned: the seed is version 1, each returned call
\* adds exactly 1, a call that throws adds nothing.
C3_VersionIsReturnedCallsPlusSeed ==
    (userCalls # Absent /\ DOMAIN usersMeta # {}) =>
        LatestVersion(usersMeta) = userCalls + 1

\* two calls returned, then an updateUser threw
C3_Witness ==
    /\ userCalls = 2
    /\ last.op = "updateUser" /\ ~last.ok
    /\ LatestVersion(usersMeta) = 3

\* C3 as stated: the latest usersMeta version equals the number of calls
\* that returned.
C3_VersionIsReturnedCalls ==
    (userCalls # Absent /\ DOMAIN usersMeta # {}) =>
        LatestVersion(usersMeta) = userCalls

\* C4: a mutator writes its records and bumps the owning version as one
\* atomic unit: a call that throws leaves the store as its initAPIDB left
\* it, and a call that changes a table bumps that table's version.
C4_AtomicMetaCoupledWrites ==
    [][last'.op \in UserMutators \cup OrderMutators =>
         /\ ~last'.ok => DB' = Opened
         /\ users' # Opened.users =>
                LatestVersion(usersMeta') = LatestVersion(Opened.usersMeta) + 1
         /\ orders' # Opened.orders =>
                LatestVersion(ordersMeta') = LatestVersion(Opened.ordersMeta) + 1
      ]_vars

\* C5: every stored order that has a task list has info.status equal to the
\* status derived from its tasks, unless info.status is 3 or 4.
C5_StatusInSyncWithTasks ==
    \A c \in DOMAIN orders :
        orders[c].tasks.has =>
            \/ orders[c].info.status \in {3, 4}
            \/ orders[c].info.status = calculateOrderStatus(orders[c].tasks)

\* Task lists of at most MaxTasks tasks, by the status of each task.
TaskStatusLists == UNION {[1..n -> {0, 1, 2}] : n \in 0..MaxTasks}

\* How many tasks of the list have one of the given statuses.
CountTasks(tasks, statuses) ==
    Cardinality({i \in DOMAIN tasks.data : tasks.data[i].status \in statuses})

\* The rule of the derivation, by counting.
DerivedByCount(tasks) ==
    IF CountTasks(tasks, {2}) = Len(tasks.data) THEN 2
    ELSE IF CountTasks(tasks, {1, 2}) > 0 THEN 1
    ELSE 0

\* C6: the derived status of a task list is 2 when all its tasks have status
\* 2, otherwise 1 when at least one task has status 1 or 2, otherwise 0; it
\* is never 3 or 4: for every task list of at most MaxTasks tasks and for the
\* task list of every stored order.
C6_DerivationRule ==
    /\ \A t \in TaskStatusLists :
          /\ calculateOrderStatus(TaskList(t)) = DerivedByCount(TaskList(t))
          /\ calculateOrderStatus(TaskList(t)) \notin {3, 4}
    /\ \A c \in DOMAIN orders :
          orders[c].tasks.has =>
              /\ calculateOrderStatus(orders[c].tasks)
                     = DerivedByCount(orders[c].tasks)
              /\ calculateOrderStatus(orders[c].tasks) \notin {3, 4}

\* completeOrderTask returned and left order 1 with one task completed and
\* one not started: derived status 1.
C6_Witness ==
    /\ last.op = "completeOrderTask" /\ last.ok
    /\ 1 \in DOMAIN orders
    /\ orders[1].tasks = TaskList(<<2, 0>>)
    /\ orders[1].info.status = 1

\* The order that a step of startOrderTask or completeOrderTask wrote.
Written(c) ==
    /\ c \in DOMAIN orders'
    /\ c \in DOMAIN Opened.orders
    /\ orders'[c].tasks # Opened.orders[c].tasks

\* C7: an order upserted with all its tasks at status 0 is stored with status
\* 0; a returned startOrderTask or completeOrderTask that changes a task
\* leaves its order with status 2 exactly when every task of the order is
\* completed, and with status 1 otherwise.
C7_LifecycleStatus ==
    [][/\ (last'.op = "bulkUpsertOrders" /\ last'.ok) =>
            \A c \in DOMAIN orders' :
                (/\ c \notin DOMAIN Opened.orders
                 /\ orders'[c].tasks.has
                 /\ CountTasks(orders'[c].tasks, {0}) = Len(orders'[c].tasks.data)
                 /\ Len(orders'[c].tasks.data) > 0)
                    => orders'[c].info.status = 0
       /\ (last'.op \in {"startOrderTask", "completeOrderTask"} /\ last'.ok) =>
            \A c \in DOMAIN orders' :
                Written(c) =>
                    orders'[c].info.status =
                        IF CountTasks(orders'[c].tasks, {2})
                               = Len(orders'[c].tasks.data)
                        THEN 2 ELSE 1
      ]_vars

\* completeOrderTask returned after every task of order 1 was completed
C7_Witness ==
    /\ last.op = "completeOrderTask" /\ last.ok
    /\ 1 \in DOMAIN orders
    /\ orders[1].tasks = TaskList(<<2, 2>>)
    /\ orders[1].info.status = 2
    /\ LatestVersion(ordersMeta) = 4

LifecycleCalls == {"startOrderTask", "completeOrderTask", "saveOrderChecklist",
                   "markOrdersExpired"}

\* C8: once an order's info.status is 3, no startOrderTask, completeOrderTask,
\* saveOrderChecklist or markOrdersExpired call changes it to another value.
C8_CancelledStaysCancelled ==
    [][\A c \in DOMAIN orders :
          (orders[c].info.status = 3 /\ last'.op \in LifecycleCalls) =>
              (c \in DOMAIN orders' /\ orders'[c].info.status = 3)
      ]_vars

\* C9: once an order's info.status is 2, no startOrderTask, completeOrderTask,
\* cancelOrder, saveOrderChecklist or markOrdersExpired call changes it away
\* from 2.
C9_CompletedStaysCompleted ==
    [][\A c \in DOMAIN orders :
          (orders[c].info.status = 2
           /\ last'.op \in LifecycleCalls \cup {"cancelOrder"}) =>
              (c \in DOMAIN orders' /\ orders'[c].info.status = 2)
      ]_vars

\* The expiration test of the sweep, on the day numbers: the start date
\* reads as a date, the frequency as an integer, and the day is past the
\* start plus the frequency plus 4 days.
PastWindow(order, now) ==
    /\ order.info.F_inicial.t = "str"
    /\ order.info.Frec_Dias.t \in {"num", "str"}
    /\ now > order.info.F_inicial.n + order.info.Frec_Dias.n + 4

\* C10: the sweep that a call's initAPIDB runs sets an order that is neither
\* completed nor expired already to status 4 exactly when today is strictly
\* after start + frequency + 4 days, and otherwise leaves it as it is; an
\* order that starts on day 1 with frequency 7 is not marked on day 12 and is
\* marked on day 13; the order it marks gets the default note only if it
\* holds no cancellation note.
C10_SweepMarksPastWindow ==
    [][last'.op # "tick" =>
         \A c \in DOMAIN orders :
            orders[c].info.status \notin {2, 4} =>
               LET before == orders[c]
                   after == Opened.orders[c]
               IN  /\ after.info.status = 4 <=> PastWindow(before, today)
                   /\ ~PastWindow(before, today) => after = before
                   /\ (before.info.F_inicial = Str(1)
                       /\ before.info.Frec_Dias = Num(7)) =>
                          (after.info.status = 4 <=> today = 13)
                   /\ after.info.status = 4 =>
                          after.info.obs_anulada =
                              IF before.info.obs_anulada = <<>>
                              THEN <<AUTO_EXPIRED_NOTE>>
                              ELSE before.info.obs_anulada
      ]_vars

\* on day 13 a call has swept order 1 (start day 1, frequency 7), which had
\* been cancelled: it is expired and keeps the note of its cancellation
C10_Witness ==
    /\ today = 13 /\ last.op \notin {"tick", "cancelOrder"}
    /\ 1 \in DOMAIN orders
    /\ orders[1].info.F_inicial = Str(1) /\ orders[1].info.Frec_Dias = Num(7)
    /\ orders[1].info.status = 4
    /\ orders[1].info.obs_anulada = <<"motivo", "detalle">>

\* The record the sweep is to leave for an order at status 4 that is not past
\* its window: the status its tasks give, the default note removed.
RestoredOrder(order) ==
    [order EXCEPT
        !.info.status = IF order.tasks.has THEN DerivedByCount(order.tasks) ELSE 0,
        !.info.obs_anulada = IF @ = <<AUTO_EXPIRED_NOTE>> THEN <<>> ELSE @]

\* The step is a returned importDatabaseBackup of file b that restores orders.
ImportedOrdersOn(opened, b) ==
    /\ last'.op = "importDatabaseBackup" /\ last'.ok
    /\ b.parses /\ RestoresOrders(b)
    /\ DB' = importDatabaseBackup(opened, b, "none", today).db

ImportedOrders(b) == ImportedOrdersOn(Opened, b)

\* C11: the sweep that follows a restore of orders leaves every restored
\* order that is at status 4 and not past its expiration window (its dates
\* unreadable included) with the status derived from its tasks, without its
\* cancellation note when that note is the default text, and with its note
\* untouched otherwise.
C11_SweepRestoresUnexpired ==
    [][(last'.op = "importDatabaseBackup" /\ last'.ok) =>
          LET opened == Opened
          IN  \A b \in BackupsOffered :
                  ImportedOrdersOn(opened, b) =>
                      LET restored == restoreBackup(opened, b).orders
                      IN  \A c \in DOMAIN restored :
                              (restored[c].info.status = 4
                               /\ ~PastWindow(restored[c], today)) =>
                                  orders'[c] = RestoredOrder(restored[c])
      ]_vars

\* on day 12 a backup was imported that holds order 1, expired with a note
\* of its own and not past its window, and order 2, expired with the default
\* note and no start date
C11_Witness ==
    /\ last.op = "importDatabaseBackup" /\ last.ok /\ today = 12
    /\ DOMAIN orders = {1, 2}
    /\ orders[1] = [OrderE EXCEPT !.info.status = 1]
    /\ orders[2] = [OrderC EXCEPT !.info.status = 1, !.info.obs_anulada = <<>>]

\* C12: no sweep modifies an order whose info.status is 2: the sweep of a
\* call's initAPIDB, a markOrdersExpired call with any list of codes, and the
\* sweep after a restore leave its stored record identical.
C12_SweepSkipsCompleted ==
    [][last'.op # "tick" =>
         LET opened == Opened
         IN  /\ \A c \in DOMAIN orders :
                   orders[c].info.status = 2 =>
                      /\ opened.orders[c] = orders[c]
                      /\ \A codesSet \in SUBSET {1, 2} :
                            markOrdersExpired(opened, codesSet, today).orders[c]
                                = orders[c]
                      /\ last'.op = "markOrdersExpired" => orders'[c] = orders[c]
             /\ (last'.op = "importDatabaseBackup" /\ last'.ok) =>
                   \A b \in BackupsOffered :
                       ImportedOrdersOn(opened, b) =>
                           LET restored == restoreBackup(opened, b).orders
                           IN  \A c \in DOMAIN restored :
                                   restored[c].info.status = 2 =>
                                       orders'[c] = restored[c]
      ]_vars

\* markOrdersExpired ran on day 13 over the completed order 2, which is past
\* its expiration window
C12_Witness ==
    /\ last.op = "markOrdersExpired" /\ today = 13
    /\ 2 \in DOMAIN orders
    /\ orders[2].info.status = 2
    /\ PastWindow(orders[2], today)
    /\ orders[2].info.obs_anulada = <<>>

\* The answer of a snapshot application that rejects: nothing written,
\* nothing notified.
StaleReply(s) == [db |-> s, ok |-> TRUE, ret |-> "stale-version", ev |-> {}]

SnapshotCalls == {"applyUsersSnapshot", "applyOrdersSnapshot"}

TableOfUsers(usersPayload) ==
    [c \in {toInt(usersPayload[i].code) : i \in DOMAIN usersPayload} |->
        LET i == CHOOSE i \in DOMAIN usersPayload : toInt(usersPayload[i].code) = c
        IN  [usersPayload[i] EXCEPT !.code = c]]

\* The step is applyUsersSnapshot accepting that snapshot.
AcceptedUsers(meta, usersPayload) ==
    /\ last'.op = "applyUsersSnapshot" /\ last'.ret = "applied"
    /\ DB' = applyUsersSnapshot(Opened, meta, usersPayload, "none").db

InScope(order, context) ==
    IF context.userCode # Nil
    THEN NumberOf(order.info.asignado_a_code) = toInt(context.userCode)
    ELSE NumberOf(order.info.Especialidad_id) = toInt(context.speciality)

\* The rows of an orders payload whose code is c.
Incoming(ordersPayload, c) ==
    {i \in DOMAIN ordersPayload : ResolveCode(ordersPayload[i]) = c}

\* The step is applyOrdersSnapshot accepting that snapshot.
AcceptedOrders(meta, p) ==
    /\ last'.op = "applyOrdersSnapshot" /\ last'.ret = "applied"
    /\ DB' = applyOrdersSnapshot(Opened, meta, p.orders, p.context, "none").db

C17_UnscopedSnapshotReplaces ==
    [][\A meta \in IncomingMeta, p \in OrdersSnapshotInputs :
          (p.context = NoContext /\ AcceptedOrders(meta, p)) =>
              /\ DOMAIN orders' = {ResolveCode(p.orders[i]) : i \in DOMAIN p.orders}
              /\ \A c \in DOMAIN orders' :
                    \E i \in Incoming(p.orders, c) :
                        orders'[c] = [p.orders[i] EXCEPT !.code = Num(c)]
      ]_vars

\* The lists of a backup file that its scope selects.
SelectedLists(b) ==
    IF b.scope = "users" THEN {b.data.users, b.data.usersMeta}
    ELSE IF b.scope = "orders" THEN {b.data.orders, b.data.ordersMeta}
    ELSE {b.data.users, b.data.usersMeta, b.data.orders, b.data.ordersMeta}

\* The file is not JSON, is not of the backup type, is not of the backup
\* version, or carries no list for its scope.
Malformed(b) ==
    \/ ~b.parses
    \/ b.type # "SIGEMBackup"
    \/ b.version # 1
    \/ \A l \in SelectedLists(b) : ~l.has

C20_BackupRoundTrip ==
    LET opened == Opened
        r == importDatabaseBackup(opened, exportDatabaseBackup(opened, "all"),
                                  "none", today)
    IN  /\ r.ok
        /\ r.db.users = opened.users
        /\ r.db.orders = opened.orders
        /\ LatestVersion(r.db.usersMeta) = LatestVersion(opened.usersMeta)
        /\ LatestVersion(r.db.ordersMeta) = LatestVersion(opened.ordersMeta)

\* the store that held user 200 at users version 2 and the upserted order 1
\* has been exported and imported again
C20_Witness ==
    /\ last.op = "importDatabaseBackup" /\ last.ok
    /\ DOMAIN users = {200}
    /\ LatestVersion(usersMeta) = 2
    /\ DOMAIN orders = {1}
    /\ orders[1].tasks = OrderA.tasks
    /\ LatestVersion(ordersMeta) = 2

\* The step is a returned importDatabaseBackup, and it is that of file b on
\* the opened store.
ImportReturned == last'.op = "importDatabaseBackup" /\ last'.ok

Imported(opened, b) ==
    LET r == importDatabaseBackup(opened, b, "none", today)
    IN  r.ok /\ DB' = r.db

FilesOffered(opened) == BackupInputs \cup {exportDatabaseBackup(opened, "all")}

\* The families a backup file targets.
TargetsUsers(b) ==
    b.scope # "orders" /\ (b.data.users.has \/ b.data.usersMeta.has)

TargetsOrders(b) ==
    b.scope # "users" /\ (b.data.orders.has \/ b.data.ordersMeta.has)

\* The rows of a list that carry an integer code, and the last of them for
\* code c.
CodesOf(list) == {toInt(list.rows[i].code) : i \in DOMAIN list.rows} \ {Absent}

LastRow(list, c) ==
    list.rows[SetMax({i \in DOMAIN list.rows : toInt(list.rows[i].code) = c})]

\* The meta history a payload list carries, or the seeded single record.
HistoryOf(list) ==
    LET versions == {toInt(list.rows[i].version) : i \in DOMAIN list.rows}
                        \ {Absent}
    IN  IF versions = {} THEN [v \in {1} |-> <<"restored">>]
        ELSE [v \in versions |->
                list.rows[SetMax({i \in DOMAIN list.rows :
                                    toInt(list.rows[i].version) = v})].changeLog]

PayloadUsers(b) ==
    [c \in CodesOf(b.data.users) |->
        [LastRow(b.data.users, c) EXCEPT !.code = c]]

PayloadOrders(b) ==
    [c \in CodesOf(b.data.orders) |->
        [LastRow(b.data.orders, c) EXCEPT !.code = Num(c)]]

\* The orders family after an import that targets it: the payload's records
\* under their codes, each as the payload has it but for the status and the
\* cancellation note that the sweep closing the import may set, and the
\* payload's meta history, followed by one more version when that sweep
\* changed an order.
OrdersRestoredAndSwept(b) ==
    LET payload == PayloadOrders(b)
        history == HistoryOf(b.data.ordersMeta)
        next == LatestVersion(history) + 1
    IN  /\ DOMAIN orders' = DOMAIN payload
        /\ \A c \in DOMAIN payload :
              [orders'[c] EXCEPT
                  !.info.status = payload[c].info.status,
                  !.info.obs_anulada = payload[c].info.obs_anulada] = payload[c]
        /\ \A v \in DOMAIN history :
              v \in DOMAIN ordersMeta' /\ ordersMeta'[v] = history[v]
        /\ DOMAIN ordersMeta' \subseteq DOMAIN history \cup {next}
        /\ next \in DOMAIN ordersMeta' <=> orders' # payload

InvalidUser(u) ==
    \/ toInt(u.code) = Absent
    \/ u.name = ""
    \/ u.role = ""
    \/ u.role \in {"supervisor", "mantenedor"} /\ toInt(u.speciality) = Absent

\* C22: addUser fails on every invalid input and on every code that is
\* already stored, and a failing addUser leaves the users table and usersMeta
\* as they were and notifies nobody; adding a valid new user twice succeeds
\* once, fails once and raises the users version by exactly 1.
C22_FailedAddUserHasNoEffect ==
    [][last'.op = "addUser" =>
          LET opened == Opened
          IN  /\ ~last'.ok =>
                    /\ users' = opened.users /\ usersMeta' = opened.usersMeta
                    /\ last'.ev = {}
              /\ \A u \in AddUserInputs :
                    LET first == addUser(opened, u.code, u.name, u.role,
                                         u.speciality, "none")
                        again == addUser(initAPIDB(first.db, today), u.code,
                                         u.name, u.role, u.speciality, "none")
                    IN  IF InvalidUser(u) \/ toInt(u.code) \in DOMAIN opened.users
                        THEN \A fault \in Faults :
                                addUser(opened, u.code, u.name, u.role,
                                        u.speciality, fault) = Threw(opened)
                        ELSE /\ first.ok /\ ~again.ok
                             /\ again.db.users = first.db.users
                             /\ LatestVersion(again.db.usersMeta)
                                   = LatestVersion(opened.usersMeta) + 1
      ]_vars

\* addUser has failed on a store that holds users 100 and 200, where every
\* input offered is invalid or names a stored code
C22_Witness ==
    /\ last.op = "addUser" /\ ~last.ok
    /\ DOMAIN users = {100, 200}
    /\ LatestVersion(usersMeta) = 3

\* C23: a deleteUser call that removes no user, because none is stored under
\* its code, fails and leaves the users table and usersMeta as they were.
C23_DeleteMissingUserFails ==
    [][(last'.op = "deleteUser" /\ users' = Opened.users) =>
          ~last'.ok /\ usersMeta' = Opened.usersMeta /\ last'.ev = {}
      ]_vars

OrderCalls == {"startOrderTask", "completeOrderTask", "cancelOrder",
               "saveOrderChecklist"}

\* No order is stored under the code.
OrderMissing(t, orderCode) == toInt(orderCode) \notin DOMAIN t

\* The order is stored and its task list has no entry at the index.
TaskMissing(t, orderCode, taskIndex) ==
    /\ toInt(orderCode) \in DOMAIN t
    /\ \/ ~t[toInt(orderCode)].tasks.has
       \/ taskIndex >= Len(t[toInt(orderCode)].tasks.data)

Meaning(v) ==
    IF v \in {Text("motivo"), Text(" motivo ")} THEN "motivo"
    ELSE IF v = Text("detalle") THEN "detalle"
    ELSE ""

Reads(value) == value.t \in {"num", "str"}

\* The start that the duration of a task is counted from: its init_task or
\* else the order's fecha_inicio, whichever is the first that reads.
DurationStart(task, order) ==
    IF Reads(task.init_task) THEN task.init_task.n
    ELSE IF Reads(order.info.fecha_inicio) THEN order.info.fecha_inicio.n
    ELSE Absent

\* The start that the hours of an order are counted from: its fecha_inicio,
\* or else the init_task of the completed task, or else the first init_task
\* that any of its tasks holds.
HoursStart(task, order) ==
    IF Reads(order.info.fecha_inicio) THEN order.info.fecha_inicio.n
    ELSE IF Reads(task.init_task) THEN task.init_task.n
    ELSE LET held == {i \in DOMAIN order.tasks.data :
                         order.tasks.data[i].init_task # Nil}
         IN  IF held # {} /\ Reads(order.tasks.data[SetMin(held)].init_task)
             THEN order.tasks.data[SetMin(held)].init_task.n
             ELSE Absent

\* C26: a returned completeOrderTask stores a duration_seconds and an
\* info.hs_reales that are not negative, whatever init_task and fecha_inicio
\* hold; the duration is 0 when neither init_task nor fecha_inicio reads as
\* a date or the start is not before the completion, and the whole seconds
\* elapsed otherwise; hs_reales is 0 when no start reads as a date or the
\* start is not before the completion, and positive or 0 otherwise.
C26_DurationsNeverNegative ==
    [][(last'.op = "completeOrderTask" /\ last'.ok) =>
          LET opened == Opened
          IN  \A code \in DOMAIN opened.orders, idx \in TaskIndexInputs,
                 timestamp \in Timestamps :
                  DB' = completeOrderTaskAt(opened, Num(code), idx, timestamp,
                                            "none").db =>
                      LET before == opened.orders[code]
                          prev == before.tasks.data[idx + 1]
                          task == orders'[code].tasks.data[idx + 1]
                          from == DurationStart(prev, before)
                          hoursFrom == HoursStart(prev, before)
                      IN  /\ task.duration_seconds >= 0
                          /\ orders'[code].info.hs_reales >= 0
                          /\ (from = Absent \/ from >= timestamp) =>
                                task.duration_seconds = 0
                          /\ (from # Absent /\ from < timestamp) =>
                                /\ task.duration_seconds * 1000 <= timestamp - from
                                /\ timestamp - from < (task.duration_seconds + 1) * 1000
                          /\ (hoursFrom = Absent \/ hoursFrom >= timestamp) =>
                                orders'[code].info.hs_reales = 0
                          /\ (hoursFrom # Absent /\ hoursFrom + 3600000 <= timestamp) =>
                                orders'[code].info.hs_reales >= 100
      ]_vars

\* a task whose init_task lies after the completion, in an order whose
\* fecha_inicio is unreadable, has been completed: duration 0, hours 0
C26_Witness ==
    /\ last.op = "completeOrderTask" /\ last.ok
    /\ orders[1].tasks.data[1].init_task = Num(7200000)
    /\ orders[1].tasks.data[1].status = 2
    /\ orders[1].tasks.data[1].duration_seconds = 0
    /\ orders[1].info.fecha_inicio = Junk
    /\ orders[1].info.hs_reales = 0

(***************************************************************************)
(* C27: bulkUpsertOrders stores each payload under the integer of the      *)
(* first of code, info["Numero orden"], "Numero orden", Numero, id that    *)
(* yields one, discards the payloads that yield none, keeps the later of   *)
(* two payloads of one code, and gives the same orders table when the same *)
(* batch is applied a second time.                                         *)
(***************************************************************************)
\* a candidate from which an integer is parsed
Yields(v) == v # Nil /\ v # Num(0)

FirstCandidate(o) ==
    IF Yields(o.code) THEN o.code.n
    ELSE IF Yields(o.info.Numero_orden) THEN o.info.Numero_orden.n
    ELSE IF Yields(o.Numero_orden) THEN o.Numero_orden.n
    ELSE IF Yields(o.Numero) THEN o.Numero.n
    ELSE IF Yields(o.id) THEN o.id.n
    ELSE Absent

\* the record kept for payload o under code c
KeptAs(o, c) ==
    [[o EXCEPT !.code = Num(c)] EXCEPT !.info.status =
        IF o.tasks.has THEN calculateOrderStatus(o.tasks) ELSE @]

UpsertedOnce(opened, batch, t) ==
    LET named == {FirstCandidate(batch[i]) : i \in DOMAIN batch} \ {Absent}
    IN  /\ DOMAIN t = DOMAIN opened.orders \cup named
        /\ \A c \in DOMAIN t :
              LET rows == {i \in DOMAIN batch : FirstCandidate(batch[i]) = c}
              IN  IF rows = {} THEN t[c] = opened.orders[c]
                  ELSE t[c] = KeptAs(batch[SetMax(rows)], c)

UpsertedTwice(once, batch) ==
    bulkUpsertOrders(initAPIDB(once, today), batch, "none").db.orders
        = once.orders

C27_BulkUpsertByFirstCandidate ==
    [][(last'.op = "bulkUpsertOrders" /\ last'.ok) =>
         LET opened == Opened
         IN  \A batch \in Batches :
                 LET once == bulkUpsertOrders(opened, batch, "none").db
                 IN  orders' = once.orders =>
                        /\ UpsertedOnce(opened, batch, once.orders)
                        /\ UpsertedTwice(once, batch)]_vars

\* order 2 is stored from the payload that names it in Numero and carries
\* another id, after a call that returned
C27_Witness ==
    /\ last.op = "bulkUpsertOrders"
    /\ last.ok
    /\ 2 \in DOMAIN orders
    /\ orders[2].code = Num(2)
    /\ orders[2].Numero = Num(2)
    /\ orders[2].id = Str(1)
    /\ 1 \notin DOMAIN orders

(***************************************************************************)
(* The change-notification bus.  notifyUsersChanged / notifyOrdersChanged  *)
(* dispatch a CustomEvent on window and post a message on a                *)
(* BroadcastChannel, each inside its own try/catch.  `bus` says what each  *)
(* medium does: "up", "throws" (dispatchEvent / postMessage / the          *)
(* constructor throws) or, for the channel, "absent" (no BroadcastChannel  *)
(* in self, getUsersBC returns null).  In this specification `ev` holds    *)
(* what was delivered: the event names and the channel names.              *)
(***************************************************************************)
Buses ==
    {[window |-> "up", channel |-> "up"],
     [window |-> "throws", channel |-> "up"],
     [window |-> "up", channel |-> "absent"],
     [window |-> "throws", channel |-> "throws"]}

EventName(family) ==
    IF family = "users" THEN "users:changed" ELSE "orders:changed"

USERS_BC_NAME == "wt-users-changes"
ORDERS_BC_NAME == "wt-orders-changes"

ChannelName(family) ==
    IF family = "users" THEN USERS_BC_NAME ELSE ORDERS_BC_NAME

\* a notifier whose failures are not caught: the call rejects after its
\* transaction has committed
notifyChangedUncaught(r, bus) ==
    IF r.ev # {} /\ (bus.window = "throws" \/ bus.channel = "throws")
    THEN [r EXCEPT !.ok = FALSE, !.ret = "error", !.ev = {}]
    ELSE [r EXCEPT !.ev = {EventName(f) : f \in {g \in r.ev : bus.window = "up"}}
                     \cup {ChannelName(f) : f \in {g \in r.ev : bus.channel = "up"}}]

\* The bodies of the notifiers, for the families the call r notifies: a
\* medium that throws or is absent delivers nothing, and nothing else
\* changes.
notifyChanged(r, bus) ==
    [r EXCEPT !.ev = {EventName(f) : f \in {g \in r.ev : bus.window = "up"}}
                \cup {ChannelName(f) : f \in {g \in r.ev : bus.channel = "up"}}]

MaxBusVersions == 4

BusBounded == LatestVersion(usersMeta) + LatestVersion(ordersMeta) < MaxBusVersions

Dispatched(op, r) ==
    /\ BusBounded
    /\ \E bus \in Buses : Call(op, notifyChanged(r, bus))

BusSeedRootAdminFromEnv ==
    \E fault \in Faults :
        Dispatched("seedRootAdminFromEnv", seedRootAdminFromEnv(Opened, fault))

BusAddUser ==
    \E u \in AddUserInputs, fault \in Faults :
        Dispatched("addUser",
                   addUser(Opened, u.code, u.name, u.role, u.speciality, fault))

BusUpdateUser ==
    \E u \in UpdateUserInputs, fault \in Faults :
        Dispatched("updateUser", updateUser(Opened, u.code, u.patch, fault))

BusDeleteUser ==
    \E code \in CodeInputs \ {Nil}, fault \in Faults :
        Dispatched("deleteUser", deleteUser(Opened, code, fault))

BusBulkUpsertOrders ==
    \E batch \in Batches, fault \in Faults :
        Dispatched("bulkUpsertOrders", bulkUpsertOrders(Opened, batch, fault))

BusStartOrderTask ==
    \E orderCode \in OrderCodeInputs, taskIndex \in TaskIndexInputs,
       fault \in Faults :
        Dispatched("startOrderTask",
                   startOrderTask(Opened, orderCode, taskIndex, fault))

BusCompleteOrderTask ==
    \E orderCode \in OrderCodeInputs, taskIndex \in TaskIndexInputs,
       fault \in Faults :
        Dispatched("completeOrderTask",
                   completeOrderTask(Opened, orderCode, taskIndex, fault))

BusCancelOrder ==
    \E c \in CancelInputs, fault \in Faults :
        Dispatched("cancelOrder",
                   cancelOrder(Opened, c.orderCode, c.reason, c.detail, fault))

BusSaveOrderChecklist ==
    \E orderCode \in OrderCodeInputs, checklistData \in ChecklistInputs,
       fault \in Faults :
        Dispatched("saveOrderChecklist",
                   saveOrderChecklist(Opened, orderCode, checklistData, fault))

BusApplyUsersSnapshot ==
    \E meta \in IncomingMeta, usersPayload \in UsersPayloads, fault \in Faults :
        Dispatched("applyUsersSnapshot",
                   applyUsersSnapshot(Opened, meta, usersPayload, fault))

BusApplyOrdersSnapshot ==
    \E meta \in IncomingMeta, p \in OrdersSnapshotInputs, fault \in Faults :
        Dispatched("applyOrdersSnapshot",
                   applyOrdersSnapshot(Opened, meta, p.orders, p.context, fault))

BusImportDatabaseBackup ==
    \E backup \in BackupInputs, fault \in Faults :
        Dispatched("importDatabaseBackup",
                   importDatabaseBackup(Opened, backup, fault, today))

NextBus ==
    \/ BusSeedRootAdminFromEnv
    \/ BusAddUser
    \/ BusUpdateUser
    \/ BusDeleteUser
    \/ BusBulkUpsertOrders
    \/ BusStartOrderTask
    \/ BusCompleteOrderTask
    \/ BusCancelOrder
    \/ BusSaveOrderChecklist
    \/ BusApplyUsersSnapshot
    \/ BusApplyOrdersSnapshot
    \/ BusImportDatabaseBackup

SpecBus == Init /\ [][NextBus]_vars

(***************************************************************************)
(* C28: a failure of the notification bus (the window event or the         *)
(* broadcast channel throwing or being absent) never fails or rolls back   *)
(* the mutating operation: the call returns what it returns with the bus   *)
(* up, and its writes and version bump stay.                               *)
(***************************************************************************)
MutatingCalls ==
    {"seedRootAdminFromEnv", "addUser", "updateUser", "deleteUser",
     "bulkUpsertOrders", "startOrderTask", "completeOrderTask", "cancelOrder",
     "saveOrderChecklist", "applyUsersSnapshot", "applyOrdersSnapshot",
     "importDatabaseBackup"}

\* what the calls of op return on store s, the bus left aside
Outcomes(s, op) ==
    CASE op = "seedRootAdminFromEnv" ->
            {seedRootAdminFromEnv(s, fault) : fault \in Faults}
      [] op = "addUser" ->
            {addUser(s, x[1].code, x[1].name, x[1].role, x[1].speciality, x[2]) :
                x \in AddUserInputs \X Faults}
      [] op = "updateUser" ->
            {updateUser(s, x[1].code, x[1].patch, x[2]) :
                x \in UpdateUserInputs \X Faults}
      [] op = "deleteUser" ->
            {deleteUser(s, x[1], x[2]) : x \in (CodeInputs \ {Nil}) \X Faults}
      [] op = "bulkUpsertOrders" ->
            {bulkUpsertOrders(s, x[1], x[2]) : x \in Batches \X Faults}
      [] op = "startOrderTask" ->
            {startOrderTask(s, x[1], x[2], x[3]) :
                x \in OrderCodeInputs \X TaskIndexInputs \X Faults}
      [] op = "completeOrderTask" ->
            {completeOrderTask(s, x[1], x[2], x[3]) :
                x \in OrderCodeInputs \X TaskIndexInputs \X Faults}
      [] op = "cancelOrder" ->
            {cancelOrder(s, x[1].orderCode, x[1].reason, x[1].detail, x[2]) :
                x \in CancelInputs \X Faults}
      [] op = "saveOrderChecklist" ->
            {saveOrderChecklist(s, x[1], x[2], x[3]) :
                x \in OrderCodeInputs \X ChecklistInputs \X Faults}
      [] op = "applyUsersSnapshot" ->
            {applyUsersSnapshot(s, x[1], x[2], x[3]) :
                x \in IncomingMeta \X UsersPayloads \X Faults}
      [] op = "applyOrdersSnapshot" ->
            {applyOrdersSnapshot(s, x[1], x[2].orders, x[2].context, x[3]) :
                x \in IncomingMeta \X OrdersSnapshotInputs \X Faults}
      [] op = "importDatabaseBackup" ->
            {importDatabaseBackup(s, x[1], x[2], today) :
                x \in BackupInputs \X Faults}

Messages(families) ==
    {EventName(f) : f \in families} \cup {ChannelName(f) : f \in families}

C28_BusFailureNeverFailsTheCall ==
    [][last'.op \in MutatingCalls =>
         \E r \in Outcomes(Opened, last'.op) :
             /\ DB' = r.db
             /\ last'.ok = r.ok
             /\ last'.ret = r.ret
             /\ last'.ev \subseteq Messages(r.ev)]_vars

\* addUser returned and its user and version 2 are stored although neither
\* the window event nor the channel message was delivered; cancelOrder
\* returned with the event thrown away and the channel message delivered
C28_Witness ==
    \/ /\ last.op = "addUser"
       /\ last.ok
       /\ last.ev = {}
       /\ 100 \in DOMAIN users
       /\ LatestVersion(usersMeta) = 2
    \/ /\ last.op = "cancelOrder"
       /\ last.ok
       /\ last.ev = {ORDERS_BC_NAME}
       /\ 1 \in DOMAIN orders
       /\ orders[1].info.status = 3

(***************************************************************************)
(* C29: seedRootAdminFromEnv inserts the administrator and bumps usersMeta *)
(* only when no user of the configured code is stored; when one is stored, *)
(* a previous seed included, it returns false and changes neither the      *)
(* stored users nor usersMeta, so that a second seed changes nothing.      *)
(***************************************************************************)
C29_SeedRootAdminIdempotent ==
    [][last'.op = "seedRootAdminFromEnv" =>
         LET opened == Opened
             again == seedRootAdminFromEnv(initAPIDB(DB', today), "none")
         IN  /\ AdminCode \in DOMAIN opened.users =>
                   /\ last'.ok
                   /\ last'.ret = "false"
                   /\ last'.ev = {}
                   /\ users' = opened.users
                   /\ usersMeta' = opened.usersMeta
             /\ (AdminCode \notin DOMAIN opened.users /\ last'.ok) =>
                   /\ last'.ret = "true"
                   /\ DOMAIN users' = DOMAIN opened.users \cup {AdminCode}
                   /\ users'[AdminCode].name = AdminName
                   /\ users'[AdminCode].role = "admin"
                   /\ \A c \in DOMAIN opened.users : users'[c] = opened.users[c]
                   /\ LatestVersion(usersMeta') = LatestVersion(opened.usersMeta) + 1
             /\ ~last'.ok =>
                   /\ users' = opened.users
                   /\ usersMeta' = opened.usersMeta
             /\ last'.ok =>
                   /\ again.ok
                   /\ again.ret = "false"
                   /\ again.db.users = users'
                   /\ again.db.usersMeta = usersMeta']_vars

\* a seed that found the administrator of a previous seed: it answered
\* false, and the users family is still at the version of the first seed
C29_Witness ==
    /\ last.op = "seedRootAdminFromEnv"
    /\ last.ok
    /\ last.ret = "false"
    /\ AdminCode \in DOMAIN users
    /\ users[AdminCode].name = AdminName
    /\ LatestVersion(usersMeta) = 2

(***************************************************************************)
(* The users family under sequences of addUser, updateUser and deleteUser  *)
(* alone, with callers that also hand over a role outside admin,           *)
(* supervisor and mantenedor (neither function compares the role with a    *)
(* list: any non-empty text is stored).                                    *)
(***************************************************************************)
AddUserAnyRoleInputs ==
    AddUserInputs \cup
    {[code |-> Str(200), name |-> "Ana", role |-> "operador", speciality |-> Num(1)]}

UpdateUserAnyRoleInputs ==
    UpdateUserInputs \cup
    {[code |-> Num(100),
      patch |-> [has |-> {"role"}, name |-> "", role |-> "operador",
                 speciality |-> Nil]]}

MaxUserVersions == 6

UsersBounded == LatestVersion(usersMeta) < MaxUserVersions

AddUserAnyRole ==
    /\ UsersBounded
    /\ \E u \in AddUserAnyRoleInputs, fault \in Faults :
          Call("addUser",
               addUser(Opened, u.code, u.name, u.role, u.speciality, fault))

UpdateUserAnyRole ==
    /\ UsersBounded
    /\ \E u \in UpdateUserAnyRoleInputs, fault \in Faults :
          Call("updateUser", updateUser(Opened, u.code, u.patch, fault))

DeleteUserOfSequence ==
    /\ UsersBounded
    /\ \E code \in CodeInputs \ {Nil}, fault \in Faults :
          Call("deleteUser", deleteUser(Opened, code, fault))

NextUsers ==
    \/ AddUserAnyRole
    \/ UpdateUserAnyRole
    \/ DeleteUserOfSequence

SpecUsers == Init /\ [][NextUsers]_vars

(***************************************************************************)
(* C30: after any sequence of addUser, updateUser and deleteUser there is  *)
(* one stored user per code, every stored supervisor or mantenedor has an  *)
(* integer speciality, and a stored user has a null speciality only if its *)
(* role is admin.                                                          *)
(***************************************************************************)
C30_UsersWellFormed ==
    \A c \in DOMAIN users :
        /\ users[c].code = c
        /\ RequiresSpeciality(users[c].role) => users[c].speciality \in Nat
        /\ users[c].speciality = Null => users[c].role = "admin"

\* what the two functions do keep: a null speciality only for a role that
\* is neither supervisor nor mantenedor
UsersSpecialityAsStored ==
    \A c \in DOMAIN users :
        /\ users[c].code = c
        /\ RequiresSpeciality(users[c].role) => users[c].speciality \in Nat
        /\ users[c].speciality = Null => ~RequiresSpeciality(users[c].role)

(***************************************************************************)
(* Scoped orders snapshots between two devices: this device fills its      *)
(* orders, the second device takes over its tables from a backup, and then *)
(* applies the snapshot this device hands out for one assignee or one      *)
(* speciality, with the same key as context.                               *)
(***************************************************************************)
\* getOrdersMeta after its initAPIDB
getOrdersMeta(s) ==
    [version |-> LatestVersion(s.ordersMeta),
     changeLog |-> s.ordersMeta[LatestVersion(s.ordersMeta)]]

\* allOrders.filter((o) => o?.info?.asignado_a_code === userCode): strict
\* equality, a number never equals a text
getOrdersSnapshotForUser(s, userCode) ==
    LET Assigned(o) == o.info.asignado_a_code = userCode
    IN  [meta |-> getOrdersMeta(s),
         orders |-> SelectSeq(toArray(s.orders), Assigned)]

fetchOrdersBySpeciality(s, specialityId) ==
    LET all == toArray(s.orders)
        sid == toInt(specialityId)
        OfSpeciality(o) ==
            LET sp == o.info.Especialidad_id
            IN  sp.t = "num" /\ sp.n = sid
    IN  IF ~IsFinite(sid) THEN all ELSE SelectSeq(all, OfSpeciality)

getOrdersSnapshotForSpeciality(s, specialityId) ==
    [meta |-> getOrdersMeta(s),
     orders |-> fetchOrdersBySpeciality(s, specialityId)]

UserScopeKeys == {Num(42), Str(42), Num(7)}

SpecialityScopeKeys == {Num(1), Str(2)}

UserContext(userCode) == [userCode |-> userCode, speciality |-> Nil]

SpecialityContext(specialityId) == [userCode |-> Nil, speciality |-> specialityId]

MaxScopeVersions == 4

ScopeBulkUpsertOrders ==
    /\ LatestVersion(ordersMeta) < MaxScopeVersions
    /\ \E batch \in Batches :
          Call("bulkUpsertOrders", bulkUpsertOrders(Opened, batch, "none"))

\* The second device imports the backup that this device exports.
PeerImportsBackup ==
    /\ peer' = importDatabaseBackup(PeerOpened, exportDatabaseBackup(Opened, "all"),
                                    "none", today).db
    /\ Commit("exportDatabaseBackup", Returned(Opened))
    /\ UNCHANGED <<today, phase, calls>>

PeerAppliesForUser ==
    /\ \E userCode \in UserScopeKeys :
          LET snapshot == getOrdersSnapshotForUser(Opened, userCode)
          IN  peer' = applyOrdersSnapshot(PeerOpened, snapshot.meta, snapshot.orders,
                                          UserContext(userCode), "none").db
    /\ Commit("getOrdersSnapshotForUser", Returned(Opened))
    /\ UNCHANGED <<today, phase, calls>>

PeerAppliesForSpeciality ==
    /\ \E specialityId \in SpecialityScopeKeys :
          LET snapshot == getOrdersSnapshotForSpeciality(Opened, specialityId)
          IN  peer' = applyOrdersSnapshot(PeerOpened, snapshot.meta, snapshot.orders,
                                          SpecialityContext(specialityId), "none").db
    /\ Commit("getOrdersSnapshotForSpeciality", Returned(Opened))
    /\ UNCHANGED <<today, phase, calls>>

NextScope ==
    \/ ScopeBulkUpsertOrders
    \/ PeerImportsBackup
    \/ PeerAppliesForUser
    \/ PeerAppliesForSpeciality

SpecScope == Init /\ [][NextScope]_vars

(***************************************************************************)
(* C31: for every scope key and every stored order, the order is in the    *)
(* snapshot exported for that key exactly when applyOrdersSnapshot with    *)
(* the key as context treats it as in scope; hence a scoped snapshot       *)
(* applied to a store that holds the same orders deletes no order.         *)
(***************************************************************************)
Exported(snapshot, order) ==
    \E i \in DOMAIN snapshot.orders : snapshot.orders[i] = order

ScopesAgree(s) ==
    /\ \A userCode \in UserScopeKeys, c \in DOMAIN s.orders :
          Exported(getOrdersSnapshotForUser(s, userCode), s.orders[c])
              <=> InScope(s.orders[c], UserContext(userCode))
    /\ \A specialityId \in SpecialityScopeKeys, c \in DOMAIN s.orders :
          Exported(getOrdersSnapshotForSpeciality(s, specialityId), s.orders[c])
              <=> InScope(s.orders[c], SpecialityContext(specialityId))

C31_ExportAndImportScopeAgree ==
    [][last'.op \in {"getOrdersSnapshotForUser", "getOrdersSnapshotForSpeciality"} =>
         /\ ScopesAgree(Opened)
         /\ PeerOpened.orders = Opened.orders =>
               DOMAIN peer'.orders = DOMAIN Opened.orders]_vars

\* the part that holds: the speciality scope of export and import agree on
\* orders whose speciality is stored as a number
SpecialityScopesAgree ==
    \A specialityId \in SpecialityScopeKeys, c \in DOMAIN Opened.orders :
        Exported(getOrdersSnapshotForSpeciality(Opened, specialityId),
                 Opened.orders[c])
            <=> InScope(Opened.orders[c], SpecialityContext(specialityId))

(***************************************************************************)
(* Two calls in flight on one store.  Every `await` of a function is a     *)
(* point at which the other call may run; what a Dexie transaction does    *)
(* is one step.  The lifecycle functions read the order before they open   *)
(* their transaction and put the record built from that read inside it;    *)
(* markOrdersExpired reads all orders and builds its updates before its    *)
(* transaction; applyOrdersSnapshot compares the versions before its       *)
(* transaction; bulkUpsertOrders opens no transaction: its bulkPut and the *)
(* two awaits of bumpOrdersVersion (read the latest record, put the next)  *)
(* are three steps.  A call's own initAPIDB is taken as one step together  *)
(* with the reads that follow it, except for markOrdersExpired, whose      *)
(* first pass is the sweep inside its initAPIDB.                           *)
(***************************************************************************)
Callers == {1, 2}

LifecycleOps == {"startOrderTask", "completeOrderTask", "cancelOrder",
                 "saveOrderChecklist"}

CallOf(op, orderCode, taskIndex, batch) ==
    [op |-> op, orderCode |-> orderCode, taskIndex |-> taskIndex, batch |-> batch,
     pc |-> "called", seen |-> EmptyStore, ret |-> "pending", wrote |-> Absent]

RaceMeta == [version |-> 3, changeLog |-> <<"remote">>]

\* The calls that may be in flight together.
CallsOffered ==
    {CallOf("bulkUpsertOrders", Nil, 0, <<OrderB>>),
     CallOf("startOrderTask", Num(1), 0, <<>>),
     CallOf("completeOrderTask", Num(1), 0, <<>>),
     CallOf("completeOrderTask", Num(1), 1, <<>>),
     CallOf("cancelOrder", Num(1), 0, <<>>),
     CallOf("saveOrderChecklist", Num(1), 0, <<>>),
     CallOf("markOrdersExpired", Nil, 0, <<>>),
     CallOf("applyOrdersSnapshot", Nil, 0, <<OrderD>>)}

\* The store the calls find: order 1 with two pending tasks, written by
\* bulkUpsertOrders on day 12.
StoreFound == bulkUpsertOrders(initAPIDB(EmptyStore, 12), <<OrderA>>, "none").db

InitRace ==
    /\ users = StoreFound.users
    /\ usersMeta = StoreFound.usersMeta
    /\ orders = StoreFound.orders
    /\ ordersMeta = StoreFound.ordersMeta
    /\ today \in ClockDays
    /\ last = [op |-> "open", ok |-> TRUE, ret |-> "done", ev |-> {}]
    /\ userCalls = Absent
    /\ peer = EmptyStore
    /\ phase = "offline"
    /\ calls \in [Callers -> CallsOffered]

\* the lifecycle call c carried out on store s
RunOn(c, s) ==
    CASE c.op = "startOrderTask" ->
            startOrderTask(s, c.orderCode, c.taskIndex, "none")
      [] c.op = "completeOrderTask" ->
            completeOrderTask(s, c.orderCode, c.taskIndex, "none")
      [] c.op = "cancelOrder" ->
            cancelOrder(s, c.orderCode, Text("motivo"), Text("detalle"), "none")
      [] c.op = "saveOrderChecklist" ->
            saveOrderChecklist(s, c.orderCode, 1, "none")

Store(s) ==
    /\ users' = s.users
    /\ usersMeta' = s.usersMeta
    /\ orders' = s.orders
    /\ ordersMeta' = s.ordersMeta

Reached(p, pc, seen, ret, wrote) ==
    calls' = [calls EXCEPT ![p] = [@ EXCEPT !.pc = pc, !.seen = seen,
                                            !.ret = ret, !.wrote = wrote]]

RaceFrame == UNCHANGED <<today, last, userCalls, peer, phase>>

\* await initAPIDB(); const order = await db.orders.get(code); the checks
LifecycleReads(p) ==
    /\ calls[p].op \in LifecycleOps /\ calls[p].pc = "called"
    /\ LET opened == initAPIDB(DB, today)
       IN  /\ Store(opened)
           /\ IF RunOn(calls[p], opened).ok
              THEN Reached(p, "read", opened, "pending", Absent)
              ELSE Reached(p, "threw", EmptyStore, "error", Absent)
    /\ RaceFrame

\* the transaction: db.orders.put(updatedOrder), built from the order read
\* before, and bumpOrdersVersion
LifecycleCommits(p) ==
    /\ calls[p].op \in LifecycleOps /\ calls[p].pc = "read"
    /\ LET code == toInt(calls[p].orderCode)
           r == RunOn(calls[p],
                      [DB EXCEPT !.orders = Put(@, code, calls[p].seen.orders[code])])
       IN  /\ Store(r.db)
           /\ Reached(p, "returned", EmptyStore, "done",
                      LatestVersion(r.db.ordersMeta))
    /\ RaceFrame

\* await initAPIDB(); await db.orders.bulkPut(canon)
UpsertPuts(p) ==
    /\ calls[p].op = "bulkUpsertOrders" /\ calls[p].pc = "called"
    /\ LET opened == initAPIDB(DB, today)
           Resolves(o) == ResolveCode(o) # Absent
           valid == SelectSeq(calls[p].batch, Resolves)
           canon == [i \in DOMAIN valid |-> normalizeUpsert(valid[i])]
       IN  Store([opened EXCEPT !.orders = bulkPut(@, canon)])
    /\ Reached(p, "put", EmptyStore, "pending", Absent)
    /\ RaceFrame

\* bumpOrdersVersion: const latest = await db.ordersMeta.orderBy(...).last()
UpsertReadsLatest(p) ==
    /\ calls[p].op = "bulkUpsertOrders" /\ calls[p].pc = "put"
    /\ Reached(p, "read", DB, "pending", Absent)
    /\ UNCHANGED <<users, usersMeta, orders, ordersMeta>>
    /\ RaceFrame

\* bumpOrdersVersion: await db.ordersMeta.put({version: nextVer, changeLog})
UpsertPutsMeta(p) ==
    /\ calls[p].op = "bulkUpsertOrders" /\ calls[p].pc = "read"
    /\ LET bumped == bumpOrdersVersion(calls[p].seen.ordersMeta, "bulk upsert orders")
           nextVer == LatestVersion(bumped)
       IN  /\ ordersMeta' = Put(ordersMeta, nextVer, bumped[nextVer])
           /\ Reached(p, "returned", EmptyStore, "done", nextVer)
    /\ UNCHANGED <<users, usersMeta, orders>>
    /\ RaceFrame

\* the updates markOrdersExpired builds from the orders it has read
UpdatesOf(seen, now) ==
    {c \in DOMAIN seen.orders : sweepOrder(seen.orders[c], {}, now) # seen.orders[c]}

\* markOrdersExpired: const allOrders = await db.orders.toArray() and the
\* loop over them; the first time inside the call's initAPIDB, the second
\* time in the call itself
SweepReads(p) ==
    /\ calls[p].op = "markOrdersExpired" /\ calls[p].pc \in {"called", "swept"}
    /\ LET seeded == IF calls[p].pc = "called" THEN seedMeta(DB) ELSE DB
           first == calls[p].pc = "called"
       IN  /\ Store(seeded)
           /\ IF UpdatesOf(seeded, today) = {}
              THEN Reached(p, IF first THEN "swept" ELSE "returned", EmptyStore,
                           IF first THEN "pending" ELSE "done", calls[p].wrote)
              ELSE Reached(p, IF first THEN "read" ELSE "read again", seeded,
                           "pending", calls[p].wrote)
    /\ RaceFrame

\* markOrdersExpired: the transaction bulkPut(updates) + bumpOrdersVersion
SweepCommits(p) ==
    /\ calls[p].op = "markOrdersExpired" /\ calls[p].pc \in {"read", "read again"}
    /\ LET seen == calls[p].seen
           updates == UpdatesOf(seen, today)
           first == calls[p].pc = "read"
           bumped == bumpOrdersVersion(ordersMeta, "revalidate expired orders")
       IN  /\ orders' = [c \in DOMAIN orders \cup updates |->
                            IF c \in updates
                            THEN sweepOrder(seen.orders[c], {}, today)
                            ELSE orders[c]]
           /\ ordersMeta' = bumped
           /\ Reached(p, IF first THEN "swept" ELSE "returned", EmptyStore,
                      IF first THEN "pending" ELSE "done", LatestVersion(bumped))
    /\ UNCHANGED <<users, usersMeta>>
    /\ RaceFrame

\* applyOrdersSnapshot: await initAPIDB(); the comparison of the versions
SnapshotChecks(p) ==
    /\ calls[p].op = "applyOrdersSnapshot" /\ calls[p].pc = "called"
    /\ LET opened == initAPIDB(DB, today)
       IN  /\ Store(opened)
           /\ IF RaceMeta.version <= LatestVersion(opened.ordersMeta)
              THEN Reached(p, "returned", EmptyStore, "stale-version", Absent)
              ELSE Reached(p, "read", opened, "pending", Absent)
    /\ RaceFrame

\* applyOrdersSnapshot: the transaction (scopedRemoval, bulkPut, meta put)
applyOrdersSnapshotTransaction(s, meta, ordersPayload, context) ==
    LET Resolves(o) == ResolveCode(o) # Absent
        valid == SelectSeq(ordersPayload, Resolves)
        normalized == [i \in DOMAIN valid |-> normalizeSnapshotOrder(valid[i])]
        keepCodes == {normalized[i].code.n : i \in DOMAIN normalized}
        toRemove == ScopedRemoval(s.orders, keepCodes, context)
        kept == [c \in (DOMAIN s.orders) \ toRemove |-> s.orders[c]]
    IN  [s EXCEPT !.orders = bulkPut(kept, normalized),
                  !.ordersMeta = Put(@, meta.version, meta.changeLog)]

SnapshotCommits(p) ==
    /\ calls[p].op = "applyOrdersSnapshot" /\ calls[p].pc = "read"
    /\ Store(applyOrdersSnapshotTransaction(DB, RaceMeta, calls[p].batch, NoContext))
    /\ Reached(p, "returned", EmptyStore, "applied", RaceMeta.version)
    /\ RaceFrame

NextRace ==
    \E p \in Callers :
        \/ LifecycleReads(p)
        \/ LifecycleCommits(p)
        \/ UpsertPuts(p)
        \/ UpsertReadsLatest(p)
        \/ UpsertPutsMeta(p)
        \/ SweepReads(p)
        \/ SweepCommits(p)
        \/ SnapshotChecks(p)
        \/ SnapshotCommits(p)

SpecRace == InitRace /\ [][NextRace]_vars

(***************************************************************************)
(* C32: two concurrent successful mutating calls on the orders family      *)
(* (any pair of bulkUpsertOrders, startOrderTask, completeOrderTask,       *)
(* cancelOrder, saveOrderChecklist, markOrdersExpired), however they       *)
(* interleave, write two distinct versions: the latest ordersMeta version  *)
(* ends at least 2 above the initial one and no changeLog line is lost.    *)
(***************************************************************************)
LocalOrderWriters == LifecycleOps \cup {"bulkUpsertOrders", "markOrdersExpired"}

\* both calls have returned, each having written a version
BothWrote ==
    \A p \in Callers :
        /\ calls[p].op \in LocalOrderWriters
        /\ calls[p].pc = "returned"
        /\ calls[p].wrote # Absent

C32_ConcurrentWritersSerialized ==
    BothWrote =>
        LET initial == LatestVersion(StoreFound.ordersMeta)
            latest == LatestVersion(ordersMeta)
        IN  /\ calls[1].wrote # calls[2].wrote
            /\ latest >= initial + 2
            /\ Len(ordersMeta[latest]) >= Len(StoreFound.ordersMeta[initial]) + 2

\* the part that holds: two calls that bump inside their transactions
\* write distinct versions
TransactionalWritersSerialized ==
    (BothWrote /\ \A p \in Callers : calls[p].op # "bulkUpsertOrders") =>
        LET initial == LatestVersion(StoreFound.ordersMeta)
            latest == LatestVersion(ordersMeta)
        IN  /\ calls[1].wrote # calls[2].wrote
            /\ latest >= initial + 2
            /\ Len(ordersMeta[latest]) >= Len(StoreFound.ordersMeta[initial]) + 2

(***************************************************************************)
(* C33: no concurrent lifecycle update is lost: however two concurrent     *)
(* calls on the same order interleave (completeOrderTask on two task       *)
(* indices, or completeOrderTask with startOrderTask, saveOrderChecklist,  *)
(* cancelOrder or markOrdersExpired), the stored order reflects both once  *)
(* both have returned; after two completeOrderTask calls both tasks have   *)
(* status 2 and the order has the status derived from them.                *)
(***************************************************************************)
\* what call c leaves in the order once it has returned
Reflects(c, order) ==
    CASE c.op = "completeOrderTask" ->
            order.tasks.data[c.taskIndex + 1].status = 2
      [] c.op = "startOrderTask" ->
            order.tasks.data[c.taskIndex + 1].status \in {1, 2}
      [] c.op = "saveOrderChecklist" -> order.info.checkListDict = 1
      [] c.op = "cancelOrder" -> order.info.obs_anulada = <<"motivo", "detalle">>
      [] c.op = "markOrdersExpired" -> TRUE

\* one call is completeOrderTask and the other is one of the calls named,
\* both on order 1, and both have returned
ConcurrentOnOrder ==
    /\ \E p \in Callers : calls[p].op = "completeOrderTask"
    /\ \A p \in Callers :
          /\ calls[p].op \in LifecycleOps \cup {"markOrdersExpired"}
          /\ calls[p].pc = "returned"
    /\ calls[1].op # calls[2].op \/ calls[1].taskIndex # calls[2].taskIndex

C33_NoLifecycleUpdateLost ==
    ConcurrentOnOrder =>
        /\ \A p \in Callers : Reflects(calls[p], orders[1])
        /\ (\A p \in Callers : calls[p].op = "completeOrderTask") =>
              /\ \A i \in DOMAIN orders[1].tasks.data :
                    orders[1].tasks.data[i].status = 2
              /\ orders[1].info.status = 2

(***************************************************************************)
(* C34: the staleness check of applyOrdersSnapshot is atomic with its      *)
(* write: however the call interleaves with a concurrent local mutation or *)
(* another application, the snapshot is written only if at the moment of   *)
(* the write the local latest version is strictly lower than the incoming  *)
(* one; after an application that returns applied the latest version is    *)
(* the incoming one and no meta record of another writer was overwritten.  *)
(***************************************************************************)
C34_StalenessCheckAtomicWithWrite ==
    [][\A p \in Callers :
          (calls[p].op = "applyOrdersSnapshot" /\ calls'[p].ret = "applied"
           /\ calls[p].ret = "pending") =>
              /\ LatestVersion(ordersMeta) < RaceMeta.version
              /\ LatestVersion(ordersMeta') = RaceMeta.version
              /\ \A v \in DOMAIN ordersMeta : ordersMeta'[v] = ordersMeta[v]]_vars

(***************************************************************************)
(* C35: the expiration sweep runs once, when the store is initialized:     *)
(* afterwards the operations that do not concern orders (here the user     *)
(* mutations) change no order record and no ordersMeta version, even when  *)
(* the day has advanced past an order's expiration date.                   *)
(***************************************************************************)
\* the store has been initialized by an earlier call
Initialized == DOMAIN usersMeta # {} /\ DOMAIN ordersMeta # {}

C35_SweepRunsOnceAtInitialization ==
    [][(Initialized /\ last'.op \in UserMutators) =>
          /\ orders' = orders
          /\ LatestVersion(ordersMeta') = LatestVersion(ordersMeta)]_vars

(***************************************************************************)
(* C36: the sweep is stable for a fixed day: a second run of               *)
(* markOrdersExpired on the same day, with no change to the orders in      *)
(* between, changes no order, flips no order into or out of status 4,      *)
(* bumps no ordersMeta version and emits no event.                         *)
(***************************************************************************)
C36_SweepStableForFixedDay ==
    [][last'.op = "markOrdersExpired" =>
         LET opened == Opened
             seeded == seedMeta(DB)
         IN  /\ DB' = opened
             /\ last'.ev = {}
             /\ \A codesSet \in SUBSET {1, 2} :
                   LET once == markOrdersExpired(seeded, codesSet, today)
                       again == markOrdersExpiredCall(once, codesSet, today)
                   IN  /\ again.db = once
                       /\ again.ev = {}]_vars

\* markOrdersExpired was called on day 13 on a store whose order 1 the
\* sweep has marked: the order is still marked, and nothing was notified
C36_Witness ==
    /\ last.op = "markOrdersExpired"
    /\ last.ev = {}
    /\ today = 13
    /\ 1 \in DOMAIN orders
    /\ orders[1].info.status = 4
    /\ orders[1].info.obs_anulada = <<AUTO_EXPIRED_NOTE>>

(***************************************************************************)
(* C37: the change log is append-only: after every operation that changes  *)
(* a family's meta (local mutations, sweeps, applyUsersSnapshot,           *)
(* applyOrdersSnapshot) the changeLog of the new latest meta record has    *)
(* the changeLog of the previous latest record as a prefix, and a local    *)
(* mutation extends it by exactly one line.                                *)
(***************************************************************************)
LatestLog(meta) == IF DOMAIN meta = {} THEN <<>> ELSE meta[LatestVersion(meta)]

IsPrefix(a, b) == Len(a) <= Len(b) /\ \A i \in DOMAIN a : a[i] = b[i]

MetaWriters ==
    UserMutators \cup OrderMutators
        \cup {"markOrdersExpired", "applyUsersSnapshot", "applyOrdersSnapshot"}

C37_ChangeLogAppendOnly ==
    [][last'.op \in MetaWriters =>
         LET opened == Opened
         IN  /\ IsPrefix(LatestLog(usersMeta), LatestLog(usersMeta'))
             /\ IsPrefix(LatestLog(ordersMeta), LatestLog(ordersMeta'))
             /\ Mutated(UserMutators) =>
                   Len(LatestLog(usersMeta')) = Len(LatestLog(opened.usersMeta)) + 1
             /\ Mutated(OrderMutators) =>
                   Len(LatestLog(ordersMeta')) = Len(LatestLog(opened.ordersMeta)) + 1
    ]_vars

\* the part that holds: the local mutations and the sweeps only append
LocalChangeLogAppendOnly ==
    [][last'.op \in MetaWriters \ {"applyUsersSnapshot", "applyOrdersSnapshot"} =>
         LET opened == Opened
         IN  /\ IsPrefix(LatestLog(usersMeta), LatestLog(usersMeta'))
             /\ IsPrefix(LatestLog(ordersMeta), LatestLog(ordersMeta'))
             /\ Mutated(UserMutators) =>
                   Len(LatestLog(usersMeta')) = Len(LatestLog(opened.usersMeta)) + 1
             /\ Mutated(OrderMutators) =>
                   Len(LatestLog(ordersMeta')) = Len(LatestLog(opened.ordersMeta)) + 1
    ]_vars

(***************************************************************************)
(* C38: markOrdersExpired called with a non-empty list of codes evaluates  *)
(* only the non-completed orders that are listed or have status 4; every   *)
(* other order is left unchanged even when it is past its expiration       *)
(* window.  With an empty list it evaluates all non-completed orders.      *)
(***************************************************************************)
\* the call with list codesSet leaves order c, which is not listed and has
\* a status other than 4, as it found it
LeavesUnlisted(codesSet) ==
    \A c \in DOMAIN orders :
        (c \notin codesSet /\ orders[c].info.status # 4) =>
            c \in DOMAIN orders' /\ orders'[c] = orders[c]

C38_SweepOnlyListedOrders ==
    [][last'.op = "markOrdersExpired" =>
         \A codesSet \in (SUBSET {1, 2}) \ {{}} :
             DB' = markOrdersExpiredCall(Opened, codesSet, today).db =>
                 LeavesUnlisted(codesSet)]_vars

\* the part that holds: the pass with a list, taken alone (the pass that
\* the call makes after its initAPIDB, or a call with skipInit), touches
\* only orders that are listed or have status 4, and none that is completed
ListedPassOnly ==
    \A codesSet \in SUBSET {1, 2}, c \in DOMAIN orders :
        LET seeded == seedMeta(DB)
            swept == markOrdersExpired(seeded, codesSet, today).orders
        IN  /\ (codesSet # {} /\ c \notin codesSet /\ orders[c].info.status # 4) =>
                  swept[c] = orders[c]
            /\ orders[c].info.status = 2 => swept[c] = orders[c]
            /\ (orders[c].info.status \notin {2, 4} /\ IsExpiredOn(orders[c], today)
                /\ (codesSet = {} \/ c \in codesSet)) =>
                  swept[c].info.status = 4

(***************************************************************************)
(* The stamps that startOrderTask writes: one stored order of two tasks,   *)
(* the first in any status with init_task, accepted_at and the order's     *)
(* info.fecha_inicio present, missing or unreadable; starts and            *)
(* completions at two instants.                                            *)
(***************************************************************************)
\* toISOOrNow: the ISO text of the instant the value stands for, or of the
\* current instant when parseFlexibleDate reads nothing
toISOOrNow(value, timestamp) ==
    IF parseFlexibleDate(value) # Absent
    THEN Str(parseFlexibleDate(value))
    ELSE Str(timestamp)

\* startOrderTask with the stamps it writes: init_task and accepted_at on
\* the task, info.fecha_inicio on the order, for the timestamp nowISO() gave
startOrderTaskAt(s, orderCode, taskIndex, timestamp, fault) ==
    LET r == startOrderTask(s, orderCode, taskIndex, fault)
        code == toInt(orderCode)
        idx == taskIndex
    IN  IF ~r.ok THEN r
        ELSE LET order == s.orders[code]
                 prevTask == order.tasks.data[idx + 1]
                 startAt == IF Truthy(prevTask.init_task)
                            THEN prevTask.init_task ELSE Str(timestamp)
                 init_task == toISOOrNow(startAt, timestamp)
             IN  [r EXCEPT !.db.orders[code] =
                    [@ EXCEPT
                        !.tasks.data[idx + 1].init_task = init_task,
                        !.tasks.data[idx + 1].accepted_at =
                            IF Truthy(prevTask.accepted_at)
                            THEN toISOOrNow(prevTask.accepted_at, timestamp)
                            ELSE toISOOrNow(startAt, timestamp),
                        !.info.fecha_inicio =
                            IF Truthy(order.info.fecha_inicio)
                            THEN toISOOrNow(order.info.fecha_inicio, timestamp)
                            ELSE init_task]]

StampInputs == {Nil, Junk, Str(0), Num(3600000)}

AcceptedInputs == {Nil, Junk, Str(1800000)}

StartableTask(status, initTask, acceptedAt) ==
    [status |-> status, init_task |-> initTask, end_task |-> Nil,
     duration_seconds |-> Absent, accepted_at |-> acceptedAt]

StartableOrder(status, initTask, acceptedAt, fechaInicio) ==
    LET tasks == [has |-> TRUE,
                  data |-> <<StartableTask(status, initTask, acceptedAt),
                             StartableTask(0, Nil, Nil)>>]
    IN  [TimedOrder(initTask, Nil, fechaInicio) EXCEPT
            !.tasks = tasks,
            !.info.status = calculateOrderStatus(tasks)]

InitStart ==
    /\ users = EmptyTable
    /\ usersMeta = Put(EmptyTable, 1, <<"init">>)
    /\ \E status \in {0, 1, 2}, initTask \in StampInputs,
          acceptedAt \in AcceptedInputs, fechaInicio \in StampInputs :
          orders = Put(EmptyTable, 1,
                       StartableOrder(status, initTask, acceptedAt,
                                      fechaInicio))
    /\ ordersMeta = Put(EmptyTable, 1, <<"init">>)
    /\ today = 12
    /\ last = [op |-> "open", ok |-> TRUE, ret |-> "done", ev |-> {}]
    /\ userCalls = 0
    /\ peer = EmptyStore
    /\ phase = "offline"
    /\ calls = NoCalls

StartOrderTaskAt ==
    /\ Bounded
    /\ \E orderCode \in OrderCodeInputs, taskIndex \in TaskIndexInputs,
          timestamp \in Timestamps, fault \in Faults :
          Call("startOrderTask",
               startOrderTaskAt(Opened, orderCode, taskIndex, timestamp,
                                fault))

NextStart ==
    \/ StartOrderTaskAt
    \/ CompleteOrderTaskAt

SpecStart == InitStart /\ [][NextStart]_vars

\* the stamp is present and reads as an instant
Readable(value) == Truthy(value) /\ parseFlexibleDate(value) # Absent

\* the stamp still stands for the instant it stood for
SameInstant(before, after) ==
    Readable(after) /\ parseFlexibleDate(after) = parseFlexibleDate(before)

\* the status of the started task: never lowered, 1 when it was 0
StatusKept(prev, task) ==
    /\ prev.status \in {1, 2} => task.status = prev.status
    /\ prev.status = 0 => task.status = 1

OtherTasksKept(before, after, idx) ==
    /\ DOMAIN after.tasks.data = DOMAIN before.tasks.data
    /\ \A i \in DOMAIN before.tasks.data :
          i # idx + 1 => after.tasks.data[i] = before.tasks.data[i]

SweptOnOpen(opened) == opened.orders # orders

\* the family's latest version after the call is above the one the call
\* found: a listener that reads the store again sees a bumped version
Bumped(before, after) == LatestVersion(after) > LatestVersion(before)

\* the events of the call itself follow a committed write with a bumped
\* version, and the calls that write nothing emit nothing
EventsFollowWrites(opened) ==
    /\ ~last'.ok => last'.ev = {}
    /\ last'.ret = "stale-version" => last'.ev = {} /\ DB' = opened
    /\ (last'.op = "markOrdersExpired" /\ DB' = opened) => last'.ev = {}
    /\ "users" \in last'.ev =>
          last'.ok /\ Bumped(opened.usersMeta, usersMeta')
    /\ "orders" \in last'.ev =>
          last'.ok /\ Bumped(opened.ordersMeta, ordersMeta')
    /\ SweptOnOpen(opened) => Bumped(ordersMeta, opened.ordersMeta)

(***************************************************************************)
(* C40: a change event for a family is emitted only after the              *)
(* corresponding write has been committed and never for an operation that  *)
(* made no change: failed operations, stale-version snapshot rejections    *)
(* and sweeps that change no order emit no event, and a listener that      *)
(* reads the store again on an event finds the bumped version.             *)
(***************************************************************************)
C40_EventsOnlyAfterCommittedChange ==
    [][last'.op \in MutatingCalls \cup {"markOrdersExpired"} =>
          LET opened == Opened IN EventsFollowWrites(opened)]_vars

\* the same without importDatabaseBackup
EventsOnlyAfterCommittedChangeButImport ==
    [][last'.op \in (MutatingCalls \cup {"markOrdersExpired"})
                        \ {"importDatabaseBackup"} =>
          LET opened == Opened IN EventsFollowWrites(opened)]_vars

====
